---- MODULE Spec2Model ----
(***************************************************************************)
(* Model of the in-memory chat engine of broadcast-box-chat:               *)
(*   internal/chat/types.go      CircularBuffer, ChatRoom, Manager         *)
(*   internal/chat/websocket.go  WSHandler, Connection                     *)
(*   unnamed/part_001            RateLimiter, UserRateRecord               *)
(*   unnamed/part_000            ChatConfig defaults                       *)
(* Time is wall time in whole seconds.  Strings are run-length encoded     *)
(* ASCII: a text is a sequence of runs [c, n] (character c, n times).      *)
(***************************************************************************)
EXTENDS Integers, Sequences, FiniteSets, TLC

VARIABLES
    now,          \* time.Now(), seconds
    cb,           \* a CircularBuffer on its own
    cbNextID,     \* next message ID handed to cb
    cbLog,        \* history: every message appended to cb, in order
    cbEvicted,    \* history: cb was cleared or lost a message to RemoveOlderThan
    cbRead,       \* the last read of cb: the call, its argument and its outcome
    userRecords,  \* RateLimiter.userRecords: userID -> UserRateRecord
    rlLast,       \* the last CheckMessage call: its number, arguments and result
    rlScript,     \* client inputs still to be replayed to the limiter
    rlFree,       \* free client inputs and waits used so far
    rlDue,        \* history: userID -> end of the last timeout a check set
    rooms,        \* Manager.rooms: stream key -> room id
    heap,         \* the ChatRoom objects ever created, by room id
    connections,  \* WSHandler.connections: userID -> session
    conn,         \* session -> its Connection fields UserID, Username, StreamKey
    send,         \* session -> content of its channel Send
    sendClosed,   \* session -> close(c.Send) was executed
    pc,           \* session -> position of its readPump goroutine
    loc,          \* session -> locals of the handler readPump is in
    wpc,          \* session -> position of its writePump goroutine
    nextID,       \* next ChatMessage.ID
    script,       \* session -> client events still to be replayed to it
    frames,       \* free client events taken so far, over all sessions
    crashed,      \* the process died of a panic
    roomLog,      \* history: room id -> every message appended to it, in order
    admitted,     \* history: session -> the user-ids room.AddUser took from it
    seen,         \* history: session -> IDs of the messages its history frames held
    mux,          \* Manager.roomsMux: its writer, its readers, who waits to write
    tpc,          \* task -> position of a worker or of a caller of the Manager
    tloc,         \* task -> locals of the function the task is in
    memTracker,   \* Manager.memTracker
    mgrScript,    \* caller -> the Manager calls it still has to make
    mgrRuns,      \* worker or request -> how many times it may still begin
    statsSeen,    \* history: the totals that held at some moment of a GetStats
    statsOut,     \* the totals the last GetStats returned
    stopped       \* Manager.Stop has closed stopCleanup and stopMonitor

bufVars == <<cb, cbNextID, cbLog, cbEvicted, cbRead>>
rlVars == <<userRecords, rlLast, rlScript, rlFree, rlDue>>
rlGhost == <<rlLast, rlScript, rlFree, rlDue>>
chatVars == <<rooms, heap, connections, conn, send, sendClosed, pc, loc, wpc,
              nextID, script, frames, crashed, roomLog, admitted, seen>>
sessVars == <<connections, conn, send, sendClosed, pc, loc, wpc, script,
              frames, crashed, admitted, seen>>
mgrVars == <<mux, tpc, tloc, memTracker, mgrScript, mgrRuns, statsSeen,
             statsOut, stopped>>
vars == <<now, bufVars, rlVars, chatVars, mgrVars>>

----------------------------------------------------------------------------
\* Bounds of the model.

\* Scaled-down config.MaxMessagesPerStream (default 500): ring capacity.
BufCap == 3
\* Appends explored on the stand-alone buffer.
MaxAppends == 5
\* Last instant explored on the stand-alone buffer, in ticks of BufTick seconds.
MaxBufTicks == 4

----------------------------------------------------------------------------
\* Small helpers.

Min(a, b) == IF a < b THEN a ELSE b

Max(a, b) == IF a > b THEN a ELSE b

----------------------------------------------------------------------------
\* types.go: ChatMessage and CircularBuffer.

ChatMessage(id, streamKey, userID, username, message, ts) ==
    [ID |-> id, StreamKey |-> streamKey, UserID |-> userID,
     Username |-> username, Message |-> message, Timestamp |-> ts]

\* The zero value of ChatMessage, as make([]ChatMessage, n) fills the array.
ZeroMessage == ChatMessage(0, "", "", "", <<>>, 0)

NewCircularBuffer(maxSize) ==
    [data |-> [i \in 1..maxSize |-> ZeroMessage], maxSize |-> maxSize,
     head |-> 0, tail |-> 0, size |-> 0]

\* A plausible slip in Add: the full buffer keeps its head.
AddKeepsHead(b, msg) ==
    [b EXCEPT !.data = [b.data EXCEPT ![b.tail + 1] = msg],
              !.tail = (b.tail + 1) % b.maxSize,
              !.size = IF b.size < b.maxSize THEN b.size + 1 ELSE b.size]

Add(b, msg) ==
    LET stored == [b EXCEPT !.data = [b.data EXCEPT ![b.tail + 1] = msg],
                            !.tail = (b.tail + 1) % b.maxSize]
    IN  IF b.size < b.maxSize
        THEN [stored EXCEPT !.size = b.size + 1]
        ELSE [stored EXCEPT !.head = (b.head + 1) % b.maxSize]

GetAll(b) ==
    [i \in 1..b.size |-> b.data[((b.head + (i - 1)) % b.maxSize) + 1]]

\* A plausible slip in GetRecent: the index leaves out head, which is right
\* until the buffer has wrapped.
GetRecentNoWrap(b, n) ==
    IF b.size = 0 THEN <<>>
    ELSE LET count == IF n > b.size THEN b.size ELSE n
             startIdx == b.size - count
         IN  [i \in 1..count |-> b.data[((startIdx + (i - 1)) % b.maxSize) + 1]]

\* make([]ChatMessage, count) panics when count is negative, which is the
\* case of a negative n on a buffer that is not empty.
GetRecentPanics(b, n) == b.size # 0 /\ (IF n > b.size THEN b.size ELSE n) < 0

\* The slice GetRecent returns when it does not panic.
GetRecent(b, n) ==
    IF b.size = 0 THEN <<>>
    ELSE LET count == IF n > b.size THEN b.size ELSE n
             startIdx == b.size - count
         IN  [i \in 1..count |->
                 b.data[((b.head + startIdx + (i - 1)) % b.maxSize) + 1]]

Size(b) == b.size

Clear(b) == [b EXCEPT !.head = 0, !.tail = 0, !.size = 0]

\* A plausible slip in the loop: Before(cutoff) in place of !After(cutoff),
\* which keeps a message stamped exactly at the cutoff.
RECURSIVE RemoveLoopBefore(_, _, _)
RemoveLoopBefore(b, cutoff, removed) ==
    IF b.size > 0 /\ b.data[b.head + 1].Timestamp < cutoff
    THEN RemoveLoopBefore([b EXCEPT !.head = (b.head + 1) % b.maxSize,
                                    !.size = b.size - 1],
                          cutoff, removed + 1)
    ELSE <<b, removed>>

\* The loop of RemoveOlderThan: <<buffer, removed>>.
RECURSIVE RemoveLoop(_, _, _)
RemoveLoop(b, cutoff, removed) ==
    IF b.size > 0 /\ ~(b.data[b.head + 1].Timestamp > cutoff)
    THEN RemoveLoop([b EXCEPT !.head = (b.head + 1) % b.maxSize,
                              !.size = b.size - 1],
                    cutoff, removed + 1)
    ELSE <<b, removed>>

\* RemoveOlderThan(duration) at time t: <<buffer, removed>>.
RemoveOlderThan(b, duration, t) ==
    IF b.size = 0 THEN <<b, 0>> ELSE RemoveLoop(b, t - duration, 0)

----------------------------------------------------------------------------
\* Strings.  len(s) is the byte length; all characters are ASCII.

Run(c, n) == <<[c |-> c, n |-> n]>>

RECURSIVE TLen(_)
TLen(s) == IF s = <<>> THEN 0 ELSE s[1].n + TLen(Tail(s))

\* Runs in canonical form: no empty run, no two adjacent runs of one character.
RECURSIVE Canon(_)
Canon(s) ==
    IF s = <<>> THEN <<>>
    ELSE IF s[1].n = 0 THEN Canon(Tail(s))
    ELSE LET rest == Canon(Tail(s))
         IN  IF rest # <<>> /\ rest[1].c = s[1].c
             THEN <<[c |-> s[1].c, n |-> s[1].n + rest[1].n]>> \o Tail(rest)
             ELSE <<s[1]>> \o rest

LowerChar(c) ==
    CASE c = "X" -> "x"
      [] c = "Y" -> "y"
      [] OTHER -> c

\* strings.ToLower
ToLower(s) == Canon([i \in 1..Len(s) |-> [c |-> LowerChar(s[i].c), n |-> s[i].n]])

RECURSIVE TrimLeft(_)
TrimLeft(s) ==
    IF s # <<>> /\ s[1].c = " " THEN TrimLeft(Tail(s)) ELSE s

RECURSIVE TrimRight(_)
TrimRight(s) ==
    IF s # <<>> /\ s[Len(s)].c = " "
    THEN TrimRight(SubSeq(s, 1, Len(s) - 1)) ELSE s

\* strings.TrimSpace
TrimSpace(s) == TrimRight(TrimLeft(Canon(s)))

\* The loop of similarity: positions i < min(len) with s1[i] == s2[i].
RECURSIVE matches(_, _)
matches(s1, s2) ==
    IF s1 = <<>> \/ s2 = <<>> THEN 0
    ELSE LET k == Min(s1[1].n, s2[1].n)
             hit == IF s1[1].c = s2[1].c THEN k ELSE 0
             r1 == IF s1[1].n = k THEN Tail(s1)
                   ELSE <<[c |-> s1[1].c, n |-> s1[1].n - k]>> \o Tail(s1)
             r2 == IF s2[1].n = k THEN Tail(s2)
                   ELSE <<[c |-> s2[1].c, n |-> s2[1].n - k]>> \o Tail(s2)
         IN  hit + matches(r1, r2)

\* similarity(s1, s2) as the fraction num/den (a float64 in the source; the
\* quotients compared with 0.8 are exact to far more than the distance of
\* any num/den with den <= 501 from 4/5).
similarity(s1, s2) ==
    IF s1 = s2 THEN [num |-> 1, den |-> 1]
    ELSE IF TLen(s1) = 0 \/ TLen(s2) = 0 THEN [num |-> 0, den |-> 1]
    ELSE [num |-> matches(s1, s2), den |-> Max(TLen(s1), TLen(s2))]

----------------------------------------------------------------------------
\* part_000: ChatConfig defaults used by the limiter.

MaxCharactersPerMessage == 500

----------------------------------------------------------------------------
\* part_001: RateLimiter and UserRateRecord.

ChatError(code, message) == [Code |-> code, Message |-> message]

NoError == ChatError("", "")

NewUserRateRecord(userID, t) ==
    [UserID |-> userID, Messages |-> <<>>, MessageContents |-> <<>>,
     CharCountHistory |-> <<>>, TimeoutUntil |-> 0, Violations |-> 0,
     LastCleanup |-> t]

getOrCreateRecord(records, userID, t) ==
    IF userID \in DOMAIN records THEN records
    ELSE [u \in DOMAIN records \cup {userID} |->
             IF u = userID THEN NewUserRateRecord(userID, t) ELSE records[u]]

recordMessage(r, content, charCount, t) ==
    [r EXCEPT !.Messages = Append(@, t),
              !.MessageContents = Append(@, content),
              !.CharCountHistory = Append(@, charCount)]

countMessagesInWindow(r, window, t) ==
    Cardinality({i \in 1..Len(r.Messages) : r.Messages[i] > t - window})

RECURSIVE SumOver(_, _)
SumOver(f, S) ==
    IF S = {} THEN 0
    ELSE LET i == CHOOSE x \in S : TRUE IN f[i] + SumOver(f, S \ {i})

countCharsInWindow(r, window, t) ==
    SumOver(r.CharCountHistory,
            {i \in 1..Len(r.Messages) :
                r.Messages[i] > t - window /\ i <= Len(r.CharCountHistory)})

\* A plausible slip in isDuplicateSpam: "more than 3" for "3 or more".
isDuplicateSpamMoreThan3(r, message) ==
    IF Len(r.MessageContents) < 3 THEN FALSE
    ELSE LET recentCount == Min(Len(r.MessageContents), 5)
             normalizedMessage == ToLower(TrimSpace(message))
             recentMsg(i) == ToLower(TrimSpace(r.MessageContents[i]))
             sim(i) == similarity(recentMsg(i), normalizedMessage)
             duplicateCount ==
                 Cardinality({i \in (Len(r.MessageContents) - recentCount + 1)
                                     ..Len(r.MessageContents) :
                     \/ recentMsg(i) = normalizedMessage
                     \/ sim(i).num * 10 > 8 * sim(i).den})
         IN  duplicateCount > 3

isDuplicateSpam(r, message) ==
    IF Len(r.MessageContents) < 3 THEN FALSE
    ELSE LET recentCount == Min(Len(r.MessageContents), 5)
             normalizedMessage == ToLower(TrimSpace(message))
             recentMsg(i) == ToLower(TrimSpace(r.MessageContents[i]))
             sim(i) == similarity(recentMsg(i), normalizedMessage)
             duplicateCount ==
                 Cardinality({i \in (Len(r.MessageContents) - recentCount + 1)
                                     ..Len(r.MessageContents) :
                     \/ recentMsg(i) = normalizedMessage
                     \/ sim(i).num * 10 > 8 * sim(i).den})
         IN  duplicateCount >= 3

\* A plausible slip in applyTimeout: the timeout is added to the old end.
applyTimeoutOnOldEnd(r, duration, t) ==
    [r EXCEPT !.TimeoutUntil = @ + duration]

applyTimeout(r, duration, t) == [r EXCEPT !.TimeoutUntil = t + duration]

\* The indices of Messages that UserRateRecord.cleanup keeps.
RECURSIVE Keep(_, _, _)
Keep(seq, idx, n) ==
    IF idx = <<>> THEN <<>>
    ELSE IF idx[1] <= n THEN <<seq[idx[1]]>> \o Keep(seq, Tail(idx), n)
    ELSE Keep(seq, Tail(idx), n)

RECURSIVE KeptIndices(_, _, _)
KeptIndices(times, i, cutoff) ==
    IF i > Len(times) THEN <<>>
    ELSE IF times[i] > cutoff THEN <<i>> \o KeptIndices(times, i + 1, cutoff)
    ELSE KeptIndices(times, i + 1, cutoff)

\* A plausible slip in cleanup: only the last minute is kept.
cleanupLastMinute(r, t) ==
    IF t - r.LastCleanup < 60 THEN r
    ELSE LET idx == KeptIndices(r.Messages, 1, t - 60)
         IN  [r EXCEPT !.Messages = Keep(r.Messages, idx, Len(r.Messages)),
                       !.MessageContents =
                           Keep(r.MessageContents, idx, Len(r.MessageContents)),
                       !.CharCountHistory =
                           Keep(r.CharCountHistory, idx, Len(r.CharCountHistory)),
                       !.LastCleanup = t]

\* A plausible slip in cleanup: a record whose history has emptied starts
\* afresh, its violations forgotten.
cleanupForgives(r, t) ==
    IF t - r.LastCleanup < 60 THEN r
    ELSE LET idx == KeptIndices(r.Messages, 1, t - 300)
         IN  [r EXCEPT !.Messages = Keep(r.Messages, idx, Len(r.Messages)),
                       !.MessageContents =
                           Keep(r.MessageContents, idx, Len(r.MessageContents)),
                       !.CharCountHistory =
                           Keep(r.CharCountHistory, idx, Len(r.CharCountHistory)),
                       !.Violations = IF idx = <<>> THEN 0 ELSE @,
                       !.LastCleanup = t]

cleanup(r, t) ==
    IF t - r.LastCleanup < 60 THEN r
    ELSE LET idx == KeptIndices(r.Messages, 1, t - 300)
         IN  [r EXCEPT !.Messages = Keep(r.Messages, idx, Len(r.Messages)),
                       !.MessageContents =
                           Keep(r.MessageContents, idx, Len(r.MessageContents)),
                       !.CharCountHistory =
                           Keep(r.CharCountHistory, idx, Len(r.CharCountHistory)),
                       !.LastCleanup = t]

Deny(r, code, message) ==
    [allowed |-> FALSE, err |-> ChatError(code, message), record |-> r]

\* A plausible slip in the tier order: the text-volume tier (Tier 5) is
\* tried before the duplicate tier (Tier 4).
CheckContentVolumeFirst(r, message, t) ==
    LET messageLen == TLen(message)
        recentMessages == countMessagesInWindow(r, 10, t)
        charsIn5Min == countCharsInWindow(r, 300, t)
        bump(k) == [r EXCEPT !.Violations = @ + k]
    IN  IF messageLen > 300 /\ recentMessages >= 1
        THEN Deny(r, "RATE_LIMIT_LONG_MESSAGE",
                  "Large messages limited to 1 per 10 seconds.")
        ELSE IF ~(messageLen > 300) /\ messageLen > 100 /\ recentMessages >= 3
        THEN Deny(r, "RATE_LIMIT_MEDIUM_MESSAGE",
                  "Medium messages limited to 3 per 10 seconds.")
        ELSE IF messageLen >= 400 /\ charsIn5Min > 2000
        THEN Deny(applyTimeout(bump(2), 600, t), "HEAVY_TEXT_SPAM",
                  "Too much text too quickly. (10 minute timeout)")
        ELSE IF isDuplicateSpam(r, message)
        THEN Deny(applyTimeout(bump(1), 300, t), "DUPLICATE_SPAM",
                  "Stop sending the same message repeatedly. (5 minute timeout)")
        ELSE IF r.Violations >= 5
        THEN Deny(applyTimeout(r, 1800, t), "REPEAT_OFFENDER",
                  "Multiple violations. (30 minute timeout)")
        ELSE IF r.Violations >= 4
        THEN Deny(applyTimeout(r, 600, t), "REPEAT_OFFENDER",
                  "Multiple violations. (10 minute timeout)")
        ELSE IF r.Violations >= 3
        THEN Deny(applyTimeout(r, 300, t), "REPEAT_OFFENDER",
                  "Multiple violations. (5 minute timeout)")
        ELSE [allowed |-> TRUE, err |-> NoError,
              record |-> recordMessage(r, message, messageLen, t)]

\* CheckMessage from the character-based tier on (Tier 3 to the end).
CheckContent(r, message, t) ==
    LET messageLen == TLen(message)
        recentMessages == countMessagesInWindow(r, 10, t)
        charsIn5Min == countCharsInWindow(r, 300, t)
        bump(k) == [r EXCEPT !.Violations = @ + k]
    IN  IF messageLen > 300 /\ recentMessages >= 1
        THEN Deny(r, "RATE_LIMIT_LONG_MESSAGE",
                  "Large messages limited to 1 per 10 seconds.")
        ELSE IF ~(messageLen > 300) /\ messageLen > 100 /\ recentMessages >= 3
        THEN Deny(r, "RATE_LIMIT_MEDIUM_MESSAGE",
                  "Medium messages limited to 3 per 10 seconds.")
        ELSE IF isDuplicateSpam(r, message)
        THEN Deny(applyTimeout(bump(1), 300, t), "DUPLICATE_SPAM",
                  "Stop sending the same message repeatedly. (5 minute timeout)")
        ELSE IF messageLen >= 400 /\ charsIn5Min > 2000
        THEN Deny(applyTimeout(bump(2), 600, t), "HEAVY_TEXT_SPAM",
                  "Too much text too quickly. (10 minute timeout)")
        ELSE IF r.Violations >= 5
        THEN Deny(applyTimeout(r, 1800, t), "REPEAT_OFFENDER",
                  "Multiple violations. (30 minute timeout)")
        ELSE IF r.Violations >= 4
        THEN Deny(applyTimeout(r, 600, t), "REPEAT_OFFENDER",
                  "Multiple violations. (10 minute timeout)")
        ELSE IF r.Violations >= 3
        THEN Deny(applyTimeout(r, 300, t), "REPEAT_OFFENDER",
                  "Multiple violations. (5 minute timeout)")
        ELSE [allowed |-> TRUE, err |-> NoError,
              record |-> recordMessage(r, message, messageLen, t)]

\* A plausible slip in the burst tier: it denies from the seventh message
\* in 10 s on, not the sixth.
CheckFrequencyBurstAtSix(r, message, t) ==
    LET messageLen == TLen(message)
        recentMessages == countMessagesInWindow(r, 10, t)
        messagesIn30s == countMessagesInWindow(r, 30, t)
        messagesIn60s == countMessagesInWindow(r, 60, t)
        bump(k) == [r EXCEPT !.Violations = @ + k]
    IN  IF messageLen > MaxCharactersPerMessage
        THEN Deny(r, "MESSAGE_TOO_LONG",
                  "Message is too long. Maximum 500 characters.")
        ELSE IF recentMessages > 5
        THEN Deny(applyTimeout(bump(1), 30, t), "RATE_LIMIT",
                  "Slow down! (30 second cooldown)")
        ELSE IF messagesIn30s >= 10
        THEN Deny(applyTimeout(bump(1), 120, t), "SPAM_DETECTED",
                  "Spam detected. (2 minute timeout)")
        ELSE IF messagesIn60s >= 20
        THEN Deny(applyTimeout(bump(2), 300, t), "HEAVY_SPAM",
                  "Heavy spam detected. (5 minute timeout)")
        ELSE CheckContent(r, message, t)

\* A plausible slip in the spam tier: it denies from the twelfth message in
\* 30 s on, not the eleventh.
CheckFrequencySpamAtEleven(r, message, t) ==
    LET messageLen == TLen(message)
        recentMessages == countMessagesInWindow(r, 10, t)
        messagesIn30s == countMessagesInWindow(r, 30, t)
        messagesIn60s == countMessagesInWindow(r, 60, t)
        bump(k) == [r EXCEPT !.Violations = @ + k]
    IN  IF messageLen > MaxCharactersPerMessage
        THEN Deny(r, "MESSAGE_TOO_LONG",
                  "Message is too long. Maximum 500 characters.")
        ELSE IF recentMessages >= 5
        THEN Deny(applyTimeout(bump(1), 30, t), "RATE_LIMIT",
                  "Slow down! (30 second cooldown)")
        ELSE IF messagesIn30s > 10
        THEN Deny(applyTimeout(bump(1), 120, t), "SPAM_DETECTED",
                  "Spam detected. (2 minute timeout)")
        ELSE IF messagesIn60s >= 20
        THEN Deny(applyTimeout(bump(2), 300, t), "HEAVY_SPAM",
                  "Heavy spam detected. (5 minute timeout)")
        ELSE CheckContent(r, message, t)

\* CheckMessage from the length check on, the record cleaned.
CheckFrequency(r, message, t) ==
    LET messageLen == TLen(message)
        recentMessages == countMessagesInWindow(r, 10, t)
        messagesIn30s == countMessagesInWindow(r, 30, t)
        messagesIn60s == countMessagesInWindow(r, 60, t)
        bump(k) == [r EXCEPT !.Violations = @ + k]
    IN  IF messageLen > MaxCharactersPerMessage
        THEN Deny(r, "MESSAGE_TOO_LONG",
                  "Message is too long. Maximum 500 characters.")
        ELSE IF recentMessages >= 5
        THEN Deny(applyTimeout(bump(1), 30, t), "RATE_LIMIT",
                  "Slow down! (30 second cooldown)")
        ELSE IF messagesIn30s >= 10
        THEN Deny(applyTimeout(bump(1), 120, t), "SPAM_DETECTED",
                  "Spam detected. (2 minute timeout)")
        ELSE IF messagesIn60s >= 20
        THEN Deny(applyTimeout(bump(2), 300, t), "HEAVY_SPAM",
                  "Heavy spam detected. (5 minute timeout)")
        ELSE CheckContent(r, message, t)

\* CheckMessage on the user's record, at time t: the result and the record.
CheckRecord(r0, message, t) ==
    IF t < r0.TimeoutUntil
    THEN Deny(r0, "TIMEOUT",
              "You are timed out. Please wait before sending messages.")
    ELSE CheckFrequency(cleanup(r0, t), message, t)

\* RateLimiter.CheckMessage at time t: [allowed, err, records].
CheckMessage(records, userID, message, t) ==
    LET created == getOrCreateRecord(records, userID, t)
        res == CheckRecord(created[userID], message, t)
    IN  [allowed |-> res.allowed, err |-> res.err,
         records |-> [created EXCEPT ![userID] = res.record]]

\* RateLimiter.performCleanup (the reaper's pass) at time t.
RateLimiter_performCleanup(records, t) ==
    LET toDelete == {u \in DOMAIN records :
                        \/ Len(records[u].Messages) = 0
                        \/ /\ Len(records[u].Messages) > 0
                           /\ t - records[u].Messages[Len(records[u].Messages)]
                                  > 1800}
    IN  [u \in DOMAIN records \ toDelete |-> records[u]]

\* RateLimiter.GetTimeoutStatus at time t: <<isTimedOut, remaining>>.
GetTimeoutStatus(records, userID, t) ==
    IF userID \notin DOMAIN records THEN <<FALSE, 0>>
    ELSE IF t < records[userID].TimeoutUntil
    THEN <<TRUE, records[userID].TimeoutUntil - t>>
    ELSE <<FALSE, 0>>

----------------------------------------------------------------------------
\* types.go: ChatUser, ChatRoom and the Manager's directory.  Rooms are
\* objects on a heap (a room id is a *ChatRoom); the directory maps a stream
\* key to a room id.

\* len() of the identifiers the model uses.
StrLen(s) ==
    CASE s = "" -> 0
      [] s \in {"a", "b", "c"} -> 1
      [] s \in {"r1", "r2"} -> 2
      [] s \in {"Ann", "Bob", "Cat"} -> 3

\* len(uuid.New().String())
UUIDLen == 36

ChatUser(userID, username, t) ==
    [UserID |-> userID, Username |-> username, ConnectedAt |-> t,
     IsActive |-> TRUE]

NewChatRoom(streamKey, maxMessages, t) ==
    [StreamKey |-> streamKey, Messages |-> NewCircularBuffer(maxMessages),
     Users |-> <<>>, LastActivity |-> t, MessageCount |-> 0, BytesUsed |-> 0]

ChatRoom_AddMessage(room, msg, t) ==
    [room EXCEPT !.Messages = Add(room.Messages, msg),
                 !.LastActivity = t,
                 !.MessageCount = @ + 1,
                 !.BytesUsed = @ + UUIDLen + StrLen(msg.StreamKey)
                                 + StrLen(msg.UserID) + StrLen(msg.Username)
                                 + TLen(msg.Message) + 100]

ChatRoom_GetMessages(room, recentN) ==
    IF recentN > 0 THEN GetRecent(room.Messages, recentN)
    ELSE GetAll(room.Messages)

ChatRoom_AddUser(room, user, t) ==
    [room EXCEPT !.Users = [u \in DOMAIN room.Users \cup {user.UserID} |->
                               IF u = user.UserID THEN user ELSE room.Users[u]],
                 !.LastActivity = t]

ChatRoom_RemoveUser(room, userID) ==
    [room EXCEPT !.Users = [u \in DOMAIN room.Users \ {userID} |-> room.Users[u]]]

\* The slice GetAllUsers returns, in map order: modelled as the set.
GetAllUsers(room) == {room.Users[u] : u \in DOMAIN room.Users}

UserCount(room) == Cardinality(DOMAIN room.Users)

\* A plausible slip in CleanupOldMessages: the byte count is not clamped.
CleanupOldMessagesNoClamp(room, retention, t) ==
    LET r == RemoveOlderThan(room.Messages, retention, t)
    IN  <<[room EXCEPT !.Messages = r[1],
                       !.BytesUsed = @ - r[2] * 500],
          r[2]>>

\* ChatRoom.CleanupOldMessages at time t: <<room, removed>>.
CleanupOldMessages(room, retention, t) ==
    LET r == RemoveOlderThan(room.Messages, retention, t)
        less == room.BytesUsed - r[2] * 500
    IN  <<[room EXCEPT !.Messages = r[1],
                       !.BytesUsed = IF r[2] > 0
                                     THEN (IF less < 0 THEN 0 ELSE less)
                                     ELSE @],
          r[2]>>

\* Manager.GetOrCreateRoom at time t, on directory d and heap h:
\* [rooms, heap, room] with room the id returned.
GetOrCreateRoom(d, h, streamKey, t) ==
    IF streamKey \in DOMAIN d
    THEN [rooms |-> d, heap |-> h, room |-> d[streamKey]]
    ELSE [rooms |-> [k \in DOMAIN d \cup {streamKey} |->
                        IF k = streamKey THEN Len(h) + 1 ELSE d[k]],
          heap |-> Append(h, NewChatRoom(streamKey, BufCap, t)),
          room |-> Len(h) + 1]

\* Manager.GetRoom: <<room id, exists>>.
GetRoom(d, streamKey) ==
    IF streamKey \in DOMAIN d THEN <<d[streamKey], TRUE>> ELSE <<0, FALSE>>

\* Manager.GetMessages
GetMessages(d, h, streamKey, recentN) ==
    IF GetRoom(d, streamKey)[2]
    THEN ChatRoom_GetMessages(h[GetRoom(d, streamKey)[1]], recentN)
    ELSE <<>>

\* Manager.GetUsers
GetUsers(d, h, streamKey) ==
    IF GetRoom(d, streamKey)[2]
    THEN GetAllUsers(h[GetRoom(d, streamKey)[1]])
    ELSE {}

\* Manager.RemoveUser: the heap afterwards.
RemoveUser(d, h, streamKey, userID) ==
    IF GetRoom(d, streamKey)[2]
    THEN [h EXCEPT ![GetRoom(d, streamKey)[1]] = ChatRoom_RemoveUser(@, userID)]
    ELSE h

ErrRoomFull == ChatError("ROOM_FULL", "Chat room is full")

----------------------------------------------------------------------------
\* websocket.go: frames, the connection registry and the fan-out.

\* WSMessage; its Timestamp (time.Now() at construction) is left out.
WSMessage(type, data, error) == [Type |-> type, Data |-> data, Error |-> error]

NoFrame == WSMessage("", <<>>, "")

\* A plausible slip in the fan-out: the stream filter is missing, every
\* registered session is a target.
TargetKeysAnyStream(reg, cs, streamKey, t) ==
    {u \in DOMAIN reg : reg[u] = t}

\* The registry keys under which session t is reached by a fan-out of a
\* sender bound to streamKey.
TargetKeys(reg, cs, streamKey, t) ==
    {u \in DOMAIN reg : reg[u] = t /\ cs[t].StreamKey = streamKey}

\* A queue after n non-blocking sends of frame (select ... default).
RECURSIVE TrySend(_, _, _, _)
TrySend(q, frame, n, cap) ==
    IF n = 0 THEN q
    ELSE TrySend(IF Len(q) < cap THEN Append(q, frame) ELSE q, frame, n - 1, cap)


\* Scaled-down config.MaxUsersPerStream (default 100).
MaxUsersPerStream == 2
\* Scaled-down capacity of a session's channel Send (256).
QueueCap == 2
\* Free client events (frames and disconnects) over all sessions.
MaxFrames == 1

\* broadcastToRoom: every queue after the loop over the registry.
broadcastToRoom(q, reg, cs, streamKey, frame) ==
    [t \in DOMAIN q |->
        TrySend(q[t], frame, Cardinality(TargetKeys(reg, cs, streamKey, t)),
                QueueCap)]

\* The loop sends on a closed channel: the send panics.
SendsOnClosed(reg, cs, closed, streamKey) ==
    \E u \in DOMAIN reg : cs[reg[u]].StreamKey = streamKey /\ closed[reg[u]]

\* A plausible slip in the typing fan-out: the sender is left out by registry
\* key, so an entry of the sender under another key is still a target.
ExceptKeysByKey(reg, cs, streamKey, exceptUserID, t) ==
    {u \in DOMAIN reg : reg[u] = t /\ cs[t].StreamKey = streamKey
                                   /\ u # exceptUserID}

\* The registry keys under which session t is reached by broadcastToRoomExcept:
\* the filter reads the target connection's UserID field.
ExceptKeys(reg, cs, streamKey, exceptUserID, t) ==
    {u \in DOMAIN reg : reg[u] = t /\ cs[t].StreamKey = streamKey
                                   /\ cs[t].UserID # exceptUserID}

\* broadcastToRoomExcept: every queue after the loop over the registry.
broadcastToRoomExcept(q, reg, cs, streamKey, frame, exceptUserID) ==
    [t \in DOMAIN q |->
        TrySend(q[t], frame,
                Cardinality(ExceptKeys(reg, cs, streamKey, exceptUserID, t)),
                QueueCap)]

\* The loop of broadcastToRoomExcept sends on a closed channel.
SendsOnClosedExcept(reg, cs, closed, streamKey, exceptUserID) ==
    \E u \in DOMAIN reg :
        /\ cs[reg[u]].StreamKey = streamKey
        /\ cs[reg[u]].UserID # exceptUserID
        /\ closed[reg[u]]

\* A plausible slip in handleChatMessage: only the burst tier yields a
\* rate_limit frame, the other denials an error frame with the code.
DenialFrameByCode(err) ==
    IF err.Code = "RATE_LIMIT" THEN WSMessage("rate_limit", <<>>, err.Message)
    ELSE WSMessage("error", <<>>, err.Code)

\* The frame handleChatMessage sends when the limiter denies.
DenialFrame(err) == WSMessage("rate_limit", <<>>, err.Message)

\* sendError
ErrorFrame(errorMsg) == WSMessage("error", <<>>, errorMsg)

----------------------------------------------------------------------------
\* The state of the sessions before any of them exists.

\* Locals of a handler: the room it holds, the text it was sent, the limiter's
\* error, the frame it is about to send and where it goes on afterwards, and
\* (history) the types of the frames it has put on its own queue so far.
NoLocals ==
    [room |-> 0, text |-> <<>>, err |-> NoError, frame |-> NoFrame,
     next |-> "", sent |-> <<>>]

\* The sessions are not part of the specification at hand.
ChatIdle ==
    /\ rooms = <<>>
    /\ heap = <<>>
    /\ connections = <<>>
    /\ conn = <<>>
    /\ send = <<>>
    /\ sendClosed = <<>>
    /\ pc = <<>>
    /\ loc = <<>>
    /\ wpc = <<>>
    /\ nextID = 1
    /\ script = <<>>
    /\ frames = 0
    /\ crashed = FALSE
    /\ roomLog = <<>>
    /\ admitted = <<>>
    /\ seen = <<>>

\* The Manager's lock, workers and callers are not part of the specification
\* at hand.
MgrIdle ==
    /\ mux = <<>>
    /\ tpc = <<>>
    /\ tloc = <<>>
    /\ memTracker = <<>>
    /\ mgrScript = <<>>
    /\ mgrRuns = <<>>
    /\ statsSeen = {}
    /\ statsOut = <<>>
    /\ stopped = FALSE

----------------------------------------------------------------------------
\* The limiter on its own: one client per user-id sends `message` texts at
\* advancing time while the reaper runs.  A behaviour starts at the freshly
\* constructed limiter, first replays one of the scripted client sessions
\* below (they bring the limiter to the tiers that need a long history) and
\* then continues with up to MaxFree free inputs.

TxtX == Run("x", 1)
TxtY == Run("y", 1)
TxtZ == Run("z", 1)
\* " X ": equal to "x" once trimmed and lowercased.
TxtXPad == Run(" ", 1) \o Run("X", 1) \o Run(" ", 1)
\* "qqqqqqqqqq" and "qqqqqqqqqr": 9 of 10 positions agree.
TxtQ10 == Run("q", 10)
TxtQ9R == Run("q", 9) \o Run("r", 1)
TxtMed == Run("m", 101)
TxtLong == Run("l", 301)
TxtBigA == Run("a", 500)
TxtBigB == Run("b", 500)
TxtOver == Run("o", 501)
\* Three texts of 300 characters, the longest a medium message may be.
TxtM300 == Run("m", 300)
TxtN300 == Run("n", 300)
TxtP300 == Run("p", 300)

RLUsers == {"a", "b"}

Msg(u, text) == [kind |-> "msg", user |-> u, text |-> text]
Wait(secs) == [kind |-> "wait", secs |-> secs]

\* Five allowed messages at one instant and a sixth, then 30 s of silence.
Burst(t1, t2, t3, t4, t5) ==
    <<Msg("a", t1), Msg("a", t2), Msg("a", t3), Msg("a", t4), Msg("a", t5),
      Msg("a", TxtX), Wait(30)>>

ScriptNone == <<>>
ScriptThree == <<Msg("a", TxtX), Msg("a", TxtX), Msg("a", TxtX)>>
ScriptSimilar == <<Msg("a", TxtQ10), Msg("a", TxtQ10), Msg("a", TxtQ10)>>
ScriptFive ==
    <<Msg("a", TxtX), Msg("a", TxtY), Msg("a", TxtZ), Msg("a", TxtX),
      Msg("a", TxtY)>>
ScriptSpam ==
    <<Msg("a", TxtX), Msg("a", TxtY), Msg("a", TxtZ), Msg("a", TxtX), Wait(10),
      Msg("a", TxtY), Msg("a", TxtZ), Msg("a", TxtX), Msg("a", TxtY), Wait(10),
      Msg("a", TxtZ)>>
ScriptText ==
    <<Msg("a", TxtBigA), Wait(10), Msg("a", TxtBigB), Wait(10),
      Msg("a", TxtBigA), Wait(10), Msg("a", TxtBigB), Wait(10),
      Msg("a", TxtBigA), Wait(10)>>
ScriptOffender ==
    Burst(TxtX, TxtY, TxtZ, TxtX, TxtY) \o Burst(TxtZ, TxtX, TxtY, TxtZ, TxtX)
        \o Burst(TxtY, TxtZ, TxtX, TxtY, TxtZ) \o <<Msg("a", TxtX), Wait(300)>>

\* Three bursts leave three violations and three "x" at the end of the
\* history: the next "x" is a duplicate, the fourth violation.
ScriptOffenderFour ==
    Burst(TxtX, TxtY, TxtZ, TxtX, TxtY) \o Burst(TxtZ, TxtX, TxtY, TxtZ, TxtY)
        \o Burst(TxtY, TxtZ, TxtX, TxtX, TxtX)
        \o <<Msg("a", TxtX), Wait(300), Msg("a", TxtY)>>
\* Three bursts leave three violations and 2706 characters in five minutes:
\* the next large message is text spam, violations four and five.
ScriptOffenderFive ==
    Burst(TxtM300, TxtN300, TxtP300, TxtX, TxtY)
        \o Burst(TxtM300, TxtN300, TxtP300, TxtX, TxtY)
        \o Burst(TxtM300, TxtN300, TxtP300, TxtX, TxtY)
        \o <<Msg("a", TxtBigA), Wait(300), Wait(300), Msg("a", TxtX)>>

\* Five allowed messages at each of the instants 0, 10, 30 and 40: twenty
\* recorded messages in the last 60 s, and one more.
ScriptTwenty ==
    <<Msg("a", TxtX), Msg("a", TxtY), Msg("a", TxtZ), Msg("a", TxtX),
      Msg("a", TxtY), Wait(10),
      Msg("a", TxtZ), Msg("a", TxtX), Msg("a", TxtY), Msg("a", TxtZ),
      Msg("a", TxtX), Wait(10), Wait(10),
      Msg("a", TxtY), Msg("a", TxtZ), Msg("a", TxtX), Msg("a", TxtY),
      Msg("a", TxtZ), Wait(10),
      Msg("a", TxtX), Msg("a", TxtY), Msg("a", TxtZ), Msg("a", TxtX),
      Msg("a", TxtY), Msg("a", TxtZ)>>

Scripts ==
    {ScriptNone, ScriptThree, ScriptSimilar, ScriptFive, ScriptSpam,
     ScriptText, ScriptOffender, ScriptOffenderFour, ScriptOffenderFive,
     ScriptTwenty}

\* Free inputs after the script.
MaxFree == 3

RLFreeInputs ==
    {Msg("a", t) : t \in {TxtX, TxtXPad, TxtQ9R, TxtMed, TxtLong, TxtBigA,
                          TxtBigB, TxtOver}}
        \cup {Msg("b", TxtX)}
        \cup {Wait(10), Wait(30), Wait(300), Wait(1800)}

NoCall ==
    [n |-> 0, user |-> "", text |-> <<>>, at |-> 0, allowed |-> TRUE,
     err |-> NoError]

\* No call on the stand-alone buffer has returned a value yet.  Of a call
\* that did: its name, the count asked for and the slice returned (reads),
\* the cutoff, the count returned and the appends made so far
\* (RemoveOlderThan).
NoRead ==
    [op |-> "", n |-> 0, panicked |-> FALSE, out |-> <<>>, cutoff |-> 0,
     removed |-> 0, appended |-> 0]

\* The stand-alone buffer is not part of the specification at hand.
BufIdle ==
    /\ cb = NewCircularBuffer(BufCap)
    /\ cbNextID = 1
    /\ cbLog = <<>>
    /\ cbEvicted = FALSE
    /\ cbRead = NoRead

\* The limiter is not part of the specification at hand.
RLIdle ==
    /\ userRecords = <<>>
    /\ rlLast = NoCall
    /\ rlScript = <<>>
    /\ rlFree = 0
    /\ rlDue = [u \in RLUsers |-> 0]

RLInit ==
    /\ now = 0
    /\ userRecords = <<>>
    /\ rlLast = NoCall
    /\ rlScript \in Scripts
    /\ rlFree = 0
    /\ rlDue = [u \in RLUsers |-> 0]
    /\ BufIdle
    /\ MgrIdle
    /\ ChatIdle

\* The next client input: the head of the script, or a free one.
RLInput(in) ==
    IF rlScript # <<>>
    THEN /\ in = Head(rlScript)
         /\ rlScript' = Tail(rlScript)
         /\ rlFree' = rlFree
    ELSE /\ in \in RLFreeInputs
         /\ rlFree < MaxFree
         /\ rlFree' = rlFree + 1
         /\ rlScript' = rlScript

\* A client's `message` reaches RateLimiter.CheckMessage.
RLCheck ==
    \E in \in RLFreeInputs
                \cup {Msg("a", t) : t \in {TxtY, TxtZ, TxtQ10, TxtM300,
                                            TxtN300, TxtP300}} :
        /\ in.kind = "msg"
        /\ RLInput(in)
        /\ LET res == CheckMessage(userRecords, in.user, in.text, now)
           IN  /\ userRecords' = res.records
               /\ rlLast' = [n |-> rlLast.n + 1, user |-> in.user,
                             text |-> in.text, at |-> now,
                             allowed |-> res.allowed, err |-> res.err]
               /\ rlDue' =
                     IF res.records[in.user].TimeoutUntil
                            # getOrCreateRecord(userRecords, in.user, now)
                                  [in.user].TimeoutUntil
                     THEN [rlDue EXCEPT ![in.user] =
                               res.records[in.user].TimeoutUntil]
                     ELSE rlDue
        /\ UNCHANGED <<now, bufVars, mgrVars, chatVars>>

\* Time passes between two client inputs.
RLWait ==
    \E in \in RLFreeInputs :
        /\ in.kind = "wait"
        /\ RLInput(in)
        /\ now' = now + in.secs
        /\ UNCHANGED <<userRecords, rlLast, rlDue, bufVars, mgrVars, chatVars>>

\* The cleanupWorker's ticker fires.
RLReap ==
    /\ userRecords' = RateLimiter_performCleanup(userRecords, now)
    /\ UNCHANGED <<now, rlLast, rlScript, rlFree, rlDue, bufVars, mgrVars, chatVars>>

RLNext == RLCheck \/ RLWait \/ RLReap

SpecRL == RLInit /\ [][RLNext]_vars

----------------------------------------------------------------------------
\* The stand-alone buffer: appends, evictions and clears at advancing time.

BufTick == 600

BufDurations == {0, 600, 1800}

BufInit ==
    /\ now = 0
    /\ cb = NewCircularBuffer(BufCap)
    /\ cbNextID = 1
    /\ cbLog = <<>>
    /\ cbEvicted = FALSE
    /\ cbRead = NoRead
    /\ RLIdle
    /\ MgrIdle
    /\ ChatIdle

BufAdd ==
    /\ ~cbRead.panicked
    /\ cbNextID <= MaxAppends
    /\ LET msg == ChatMessage(cbNextID, "r1", "a", "Ann", <<>>, now)
       IN  /\ cb' = Add(cb, msg)
           /\ cbLog' = Append(cbLog, msg)
    /\ cbNextID' = cbNextID + 1
    /\ UNCHANGED <<now, cbEvicted, cbRead, rlVars, chatVars, mgrVars>>

BufRemoveOlderThan ==
    \E d \in BufDurations :
        LET r == RemoveOlderThan(cb, d, now)
        IN  /\ ~cbRead.panicked
            /\ cb' = r[1]
            /\ cbEvicted' = (cbEvicted \/ r[2] > 0)
            /\ cbRead' = [NoRead EXCEPT !.op = "RemoveOlderThan",
                                        !.cutoff = now - d,
                                        !.removed = r[2],
                                        !.appended = cbNextID - 1]
            /\ UNCHANGED <<now, cbNextID, cbLog, rlVars, chatVars, mgrVars>>

BufClear ==
    /\ ~cbRead.panicked
    /\ cb' = Clear(cb)
    /\ cbEvicted' = TRUE
    /\ UNCHANGED <<now, cbNextID, cbLog, cbRead, rlVars, chatVars, mgrVars>>

\* The counts a reader asks for: below, at and above every size.
ReadCounts == (0 - 1)..(BufCap + 1)

\* A reader calls CircularBuffer.GetRecent(n), or ChatRoom.GetMessages(n) on
\* the room that owns the buffer; a panic ends the process.
BufRead ==
    \E op \in {"GetRecent", "GetMessages"}, n \in ReadCounts :
        /\ ~cbRead.panicked
        /\ cbRead' =
              IF op = "GetRecent"
              THEN IF GetRecentPanics(cb, n)
                   THEN [NoRead EXCEPT !.op = op, !.n = n, !.panicked = TRUE]
                   ELSE [NoRead EXCEPT !.op = op, !.n = n,
                                       !.out = GetRecent(cb, n)]
              ELSE [NoRead EXCEPT
                       !.op = op, !.n = n,
                       !.out = ChatRoom_GetMessages([Messages |-> cb], n)]
        /\ UNCHANGED <<now, cb, cbNextID, cbLog, cbEvicted, rlVars, chatVars,
                       mgrVars>>

BufAdvance ==
    /\ ~cbRead.panicked
    /\ now < MaxBufTicks * BufTick
    /\ now' = now + BufTick
    /\ UNCHANGED <<bufVars, mgrVars, rlVars, chatVars>>

BufNext == BufAdd \/ BufRemoveOlderThan \/ BufClear \/ BufRead \/ BufAdvance

SpecBuf == BufInit /\ [][BufNext]_vars

----------------------------------------------------------------------------
\* Sessions.  Each session runs readPump and writePump; readPump's handlers
\* are cut at their lock acquisitions and channel operations, so that the
\* steps of different sessions interleave as the goroutines do.  One fan-out
\* is one step: it runs under the registry's read lock, its sends never
\* block, and each touches one queue.  A send on a closed channel panics and
\* ends the process.  Clients send join and message frames and disconnect;
\* time passes only where a script says so.

Sessions == {"s1", "s2"}

\* The user-ids a client of the session joins with, and their usernames.
JoinIDs(s) == IF s = "s1" THEN {"a", "b"} ELSE {"a", "c"}
UsernameOf(u) == CASE u = "a" -> "Ann" [] u = "b" -> "Bob" [] u = "c" -> "Cat"

\* The texts a client sends in a `message` frame.
ChatTexts == {TxtX, TxtY, TxtZ, TxtOver}

\* Client events: a join frame, a message frame, a disconnect, and time
\* passing before the client's next event.
EvJoin(u) == [kind |-> "join", arg |-> u]
EvMsg(text) == [kind |-> "message", arg |-> text]
EvClose == [kind |-> "close", arg |-> ""]
EvWait(secs) == [kind |-> "wait", arg |-> secs]
\* A typing frame, and frames the dispatcher or handleJoin turns down: one
\* without a string type, one of unknown type, a join without a data object,
\* a join without userId or username.
EvTyping == [kind |-> "typing", arg |-> ""]
\* The client's connection breaks after the frames it has sent so far: the
\* next write to the socket fails.
EvBreak == [kind |-> "break", arg |-> ""]
EvBad(what) == [kind |-> "bad", arg |-> what]

\* The error text for each frame that is turned down.
BadFrames == {"notype", "unknown", "joindata", "joinmissing"}
BadFrameError(what) ==
    CASE what = "notype" -> "Invalid message type"
      [] what = "unknown" -> "Unknown message type"
      [] what = "joindata" -> "Invalid join data"
      [] what = "joinmissing" -> "Missing userId or username"

FreeEvents(s) ==
    {EvJoin(u) : u \in JoinIDs(s)}
        \cup {EvMsg(TxtX), EvMsg(TxtOver), EvClose, EvTyping, EvBad("unknown")}

\* A scenario binds each session to a stream and gives it a script.
Scenario(k2, script1, script2) ==
    [stream |-> [s \in Sessions |-> IF s = "s1" THEN "r1" ELSE k2],
     script |-> [s \in Sessions |-> IF s = "s1" THEN script1 ELSE script2]]

\* Nothing scripted.
ScenarioFree == Scenario("r1", <<>>, <<>>)
\* One session joins twice while another joins the same stream.
ScenarioRejoin == Scenario("r1", <<EvJoin("a"), EvJoin("b")>>, <<EvJoin("c")>>)
\* Two sessions on different streams.
ScenarioApart == Scenario("r2", <<EvJoin("a")>>, <<EvJoin("c")>>)
\* Two joined sessions send one message each.
ScenarioTwoSenders ==
    Scenario("r1", <<EvJoin("a"), EvMsg(TxtX)>>, <<EvJoin("c"), EvMsg(TxtY)>>)
\* A burst of six different texts, a seventh message 10 s later, and a pause.
ScenarioBurst ==
    Scenario("r1",
             <<EvJoin("a"), EvMsg(TxtX), EvMsg(TxtY), EvMsg(TxtZ), EvMsg(TxtX),
               EvMsg(TxtY), EvMsg(TxtZ), EvWait(10), EvMsg(TxtX), EvWait(30)>>,
             <<EvJoin("c")>>)
\* The same text four times, then the session joins again.
ScenarioSameText ==
    Scenario("r1",
             <<EvJoin("a"), EvMsg(TxtX), EvMsg(TxtX), EvMsg(TxtX), EvMsg(TxtX),
               EvJoin("a")>>,
             <<>>)

\* Frames that are turned down, before and after a join, next to a session
\* that joins and types.
ScenarioErrors ==
    Scenario("r1",
             <<EvBad("notype"), EvMsg(TxtX), EvBad("joinmissing"), EvJoin("a"),
               EvBad("joindata")>>,
             <<EvJoin("c"), EvTyping>>)

\* A session joins with a user-id that another session, which joins twice,
\* also uses.
ScenarioTakeover ==
    Scenario("r1", <<EvJoin("a"), EvJoin("b")>>, <<EvJoin("a")>>)

\* Two sessions join one stream with the same user-id, and the first one
\* disconnects.
ScenarioSameID == Scenario("r1", <<EvJoin("a"), EvClose>>, <<EvJoin("a")>>)

\* A client joins, sends a frame that is turned down, and its connection
\* breaks, while another session joins the stream.
ScenarioBroken ==
    Scenario("r1", <<EvJoin("a"), EvBad("unknown"), EvBreak>>, <<EvJoin("c")>>)

\* A session joins under two user-ids and disconnects, next to a session
\* that joins and sends a message.
ScenarioStale ==
    Scenario("r1", <<EvJoin("a"), EvJoin("b"), EvClose>>,
             <<EvJoin("c"), EvMsg(TxtX)>>)

Scenarios ==
    {ScenarioFree, ScenarioRejoin, ScenarioApart, ScenarioTwoSenders,
     ScenarioBurst, ScenarioSameText, ScenarioErrors, ScenarioTakeover,
     ScenarioSameID, ScenarioBroken, ScenarioStale}

\* The scenarios whose clients send nothing beyond their scripts.
ScriptedOnly == {ScenarioSameID, ScenarioBroken, ScenarioStale}

\* NewManager, NewRateLimiter, NewWSHandler, and HandleWebSocket once per
\* session: s1 is bound to r1, s2 to either stream.
ChatInit ==
    /\ now = 0
    /\ BufIdle
    /\ MgrIdle
    /\ RLIdle
    /\ rooms = <<>>
    /\ heap = <<>>
    /\ connections = <<>>
    /\ \E sc \in Scenarios :
        /\ conn = [s \in Sessions |->
                      [UserID |-> "", Username |-> "", StreamKey |-> sc.stream[s]]]
        /\ script = sc.script
        /\ frames = IF sc \in ScriptedOnly THEN MaxFrames ELSE 0
    /\ send = [s \in Sessions |-> <<>>]
    /\ sendClosed = [s \in Sessions |-> FALSE]
    /\ pc = [s \in Sessions |-> "idle"]
    /\ loc = [s \in Sessions |-> NoLocals]
    /\ wpc = [s \in Sessions |-> "run"]
    /\ nextID = 1
    /\ crashed = FALSE
    /\ roomLog = <<>>
    /\ admitted = [s \in Sessions |-> {}]
    /\ seen = [s \in Sessions |-> {}]

\* The messages appended so far to the room with id i.
LogOf(i) == IF i \in DOMAIN roomLog THEN roomLog[i] ELSE <<>>

\* readPump of s is at position p and the process is alive.
At(s, p) == ~crashed /\ pc[s] = p

\* The handler goes on to send frame on its own queue, then to position p.
ThenSend(s, frame, p) ==
    /\ loc' = [loc EXCEPT ![s].frame = frame, ![s].next = p]
    /\ pc' = [pc EXCEPT ![s] = "send"]

\* The handler returns to ReadJSON.
Return(s) ==
    /\ loc' = [loc EXCEPT ![s] = NoLocals]
    /\ pc' = [pc EXCEPT ![s] = "idle"]

\* c.broadcastToRoom(frame) by session s.
Broadcast(s, frame) ==
    IF SendsOnClosed(connections, conn, sendClosed, conn[s].StreamKey)
    THEN /\ crashed' = TRUE
         /\ send' = send
    ELSE /\ crashed' = crashed
         /\ send' = broadcastToRoom(send, connections, conn,
                                    conn[s].StreamKey, frame)

\* The next client event of session s: the head of its script, or a free
\* one once every script is replayed.
ClientEvent(s, ev) ==
    /\ At(s, "idle")
    /\ wpc[s] = "run"
    /\ IF script[s] # <<>>
       THEN /\ ev = Head(script[s])
            /\ script' = [script EXCEPT ![s] = Tail(@)]
            /\ frames' = frames
       ELSE /\ \A t \in Sessions : script[t] = <<>>
            /\ ev \in FreeEvents(s)
            /\ frames < MaxFrames
            /\ frames' = frames + 1
            /\ script' = script

\* `c.Send <- frame`: blocks while the queue is full.
SendOwn(s) ==
    /\ At(s, "send")
    /\ Len(send[s]) < QueueCap
    /\ send' = [send EXCEPT ![s] = Append(@, loc[s].frame)]
    /\ pc' = [pc EXCEPT ![s] = loc[s].next]
    /\ loc' = [loc EXCEPT ![s] =
                  IF loc[s].next = "idle" THEN NoLocals
                  ELSE [@ EXCEPT !.frame = NoFrame, !.next = "",
                                 !.sent = Append(@, loc[s].frame.Type)]]
    /\ UNCHANGED <<now, bufVars, mgrVars, rlVars, rooms, heap, connections, conn,
                   sendClosed, admitted, seen, wpc, nextID, roomLog, script, frames, crashed>>

\* handleJoin, lines 150-166: a valid join sets the session's identity.
RecvJoin(s, u) ==
    /\ ClientEvent(s, EvJoin(u))
    /\ conn' = [conn EXCEPT ![s].UserID = u, ![s].Username = UsernameOf(u)]
    /\ pc' = [pc EXCEPT ![s] = "j_room"]
    /\ UNCHANGED <<now, bufVars, mgrVars, rlVars, rooms, heap, connections, send,
                   sendClosed, admitted, seen, loc, wpc, nextID, roomLog, crashed>>

\* Manager.AddUser: GetOrCreateRoom.
JoinGetRoom(s) ==
    /\ At(s, "j_room")
    /\ LET g == GetOrCreateRoom(rooms, heap, conn[s].StreamKey, now)
       IN  /\ rooms' = g.rooms
           /\ heap' = g.heap
           /\ loc' = [loc EXCEPT ![s].room = g.room]
    /\ pc' = [pc EXCEPT ![s] = "j_count"]
    /\ UNCHANGED <<now, bufVars, mgrVars, rlVars, connections, conn, send, sendClosed, admitted, seen,
                   wpc, nextID, roomLog, script, frames, crashed>>

\* Manager.AddUser: the user limit, read under the room's read lock.
JoinCount(s) ==
    /\ At(s, "j_count")
    /\ IF UserCount(heap[loc[s].room]) >= MaxUsersPerStream
       THEN ThenSend(s, ErrorFrame(ErrRoomFull.Message), "idle")
       ELSE /\ pc' = [pc EXCEPT ![s] = "j_add"]
            /\ loc' = loc
    /\ UNCHANGED <<now, bufVars, mgrVars, rlVars, rooms, heap, connections, conn, send,
                   sendClosed, admitted, seen, wpc, nextID, roomLog, script, frames, crashed>>

\* Manager.AddUser: room.AddUser under the room's write lock.
JoinAdd(s) ==
    /\ At(s, "j_add")
    /\ heap' = [heap EXCEPT ![loc[s].room] =
                   ChatRoom_AddUser(@, ChatUser(conn[s].UserID,
                                                conn[s].Username, now), now)]
    /\ admitted' = [admitted EXCEPT ![s] = @ \cup {conn[s].UserID}]
    /\ pc' = [pc EXCEPT ![s] = "j_reg"]
    /\ UNCHANGED <<now, bufVars, mgrVars, rlVars, rooms, connections, conn, send,
                   sendClosed, seen, loc, wpc, nextID, roomLog, script, frames, crashed>>

\* handleJoin: connections[userID] = c.
JoinRegister(s) ==
    /\ At(s, "j_reg")
    /\ connections' = [u \in DOMAIN connections \cup {conn[s].UserID} |->
                          IF u = conn[s].UserID THEN s ELSE connections[u]]
    /\ pc' = [pc EXCEPT ![s] = "j_hist"]
    /\ UNCHANGED <<now, bufVars, mgrVars, rlVars, rooms, heap, conn, send, sendClosed, admitted, seen,
                   loc, wpc, nextID, roomLog, script, frames, crashed>>

\* handleJoin: the history snapshot.
JoinHistory(s) ==
    /\ At(s, "j_hist")
    /\ ThenSend(s, WSMessage("history",
                             GetMessages(rooms, heap, conn[s].StreamKey, 100),
                             ""), "j_users")
    /\ LET h == GetMessages(rooms, heap, conn[s].StreamKey, 100)
       IN  seen' = [seen EXCEPT ![s] = @ \cup {h[i].ID : i \in 1..Len(h)}]
    /\ UNCHANGED <<now, bufVars, mgrVars, rlVars, rooms, heap, connections, conn, send,
                   sendClosed, admitted, wpc, nextID, roomLog, script, frames, crashed>>

\* handleJoin: the roster snapshot.
JoinUsers(s) ==
    /\ At(s, "j_users")
    /\ ThenSend(s, WSMessage("users",
                             GetUsers(rooms, heap, conn[s].StreamKey), ""),
                "j_timeout")
    /\ UNCHANGED <<now, bufVars, mgrVars, rlVars, rooms, heap, connections, conn, send,
                   sendClosed, admitted, seen, wpc, nextID, roomLog, script, frames, crashed>>

\* handleJoin: the limiter's timeout status.
JoinTimeout(s) ==
    /\ At(s, "j_timeout")
    /\ LET st == GetTimeoutStatus(userRecords, conn[s].UserID, now)
       IN  IF st[1]
           THEN ThenSend(s, WSMessage("timeout", [duration |-> st[2]], ""),
                         "j_bcast")
           ELSE /\ pc' = [pc EXCEPT ![s] = "j_bcast"]
                /\ loc' = loc
    /\ UNCHANGED <<now, bufVars, mgrVars, rlVars, rooms, heap, connections, conn, send,
                   sendClosed, admitted, seen, wpc, nextID, roomLog, script, frames, crashed>>

\* The user_joined frame of session s.
JoinedFrame(s) ==
    WSMessage("user_joined",
              [userId |-> conn[s].UserID, username |-> conn[s].Username], "")

\* handleJoin: the user_joined fan-out.
JoinBroadcast(s) ==
    /\ At(s, "j_bcast")
    /\ Broadcast(s, JoinedFrame(s))
    /\ Return(s)
    /\ UNCHANGED <<now, bufVars, mgrVars, rlVars, rooms, heap, connections, conn,
                   sendClosed, admitted, seen, wpc, nextID, roomLog, script, frames>>

\* handleChatMessage up to the limiter's verdict.
RecvMessage(s, text) ==
    /\ ClientEvent(s, EvMsg(text))
    /\ IF conn[s].UserID = ""
       THEN /\ ThenSend(s, ErrorFrame("Not joined to chat"), "idle")
            /\ userRecords' = userRecords
       ELSE IF text = <<>>
       THEN /\ ThenSend(s, ErrorFrame("Invalid message content"), "idle")
            /\ userRecords' = userRecords
       ELSE LET r == CheckMessage(userRecords, conn[s].UserID, text, now)
            IN  /\ userRecords' = r.records
                /\ IF r.allowed
                   THEN /\ loc' = [loc EXCEPT ![s].text = text]
                        /\ pc' = [pc EXCEPT ![s] = "m_room"]
                   ELSE /\ loc' = [loc EXCEPT ![s].text = text,
                                              ![s].err = r.err,
                                              ![s].frame = DenialFrame(r.err),
                                              ![s].next = "idle"]
                        /\ pc' = [pc EXCEPT ![s] = "send"]
    /\ UNCHANGED <<now, bufVars, mgrVars, rlGhost, rooms, heap, connections, conn, send,
                   sendClosed, admitted, seen, wpc, nextID, roomLog, crashed>>

\* Manager.AddMessage: GetOrCreateRoom.
MsgGetRoom(s) ==
    /\ At(s, "m_room")
    /\ LET g == GetOrCreateRoom(rooms, heap, conn[s].StreamKey, now)
       IN  /\ rooms' = g.rooms
           /\ heap' = g.heap
           /\ loc' = [loc EXCEPT ![s].room = g.room]
    /\ pc' = [pc EXCEPT ![s] = "m_add"]
    /\ UNCHANGED <<now, bufVars, mgrVars, rlVars, connections, conn, send, sendClosed, admitted, seen,
                   wpc, nextID, roomLog, script, frames, crashed>>

\* Manager.AddMessage: the message gets its ID and time and is appended
\* under the room's message lock.
MsgAdd(s) ==
    /\ At(s, "m_add")
    /\ LET msg == ChatMessage(nextID, conn[s].StreamKey, conn[s].UserID,
                              conn[s].Username, loc[s].text, now)
       IN  /\ heap' = [heap EXCEPT ![loc[s].room] =
                          ChatRoom_AddMessage(@, msg, now)]
           /\ loc' = [loc EXCEPT ![s].frame = WSMessage("message", msg, "")]
           /\ roomLog' = [i \in DOMAIN heap |->
                             IF i = loc[s].room THEN Append(LogOf(i), msg)
                             ELSE LogOf(i)]
    /\ nextID' = nextID + 1
    /\ pc' = [pc EXCEPT ![s] = "m_bcast"]
    /\ UNCHANGED <<now, bufVars, mgrVars, rlVars, rooms, connections, conn, send,
                   sendClosed, admitted, seen, wpc, script, frames, crashed>>

\* handleChatMessage: the message fan-out.
MsgBroadcast(s) ==
    /\ At(s, "m_bcast")
    /\ Broadcast(s, loc[s].frame)
    /\ Return(s)
    /\ UNCHANGED <<now, bufVars, mgrVars, rlVars, rooms, heap, connections, conn,
                   sendClosed, admitted, seen, wpc, nextID, roomLog, script, frames>>

\* The typing frame of session s (isTyping is left out).
TypingFrame(s) ==
    WSMessage("typing",
              [userId |-> conn[s].UserID, username |-> conn[s].Username], "")

\* handleTyping: nothing happens before a join.
RecvTyping(s) ==
    /\ ClientEvent(s, EvTyping)
    /\ pc' = [pc EXCEPT ![s] = IF conn[s].UserID = "" THEN "idle" ELSE "t_bcast"]
    /\ UNCHANGED <<now, bufVars, mgrVars, rlVars, rooms, heap, connections, conn, send,
                   sendClosed, admitted, seen, loc, wpc, nextID, roomLog, crashed>>

\* handleTyping: the fan-out to the room except the sender.
TypingBroadcast(s) ==
    /\ At(s, "t_bcast")
    /\ IF SendsOnClosedExcept(connections, conn, sendClosed,
                              conn[s].StreamKey, conn[s].UserID)
       THEN /\ crashed' = TRUE
            /\ send' = send
       ELSE /\ crashed' = crashed
            /\ send' = broadcastToRoomExcept(send, connections, conn,
                                             conn[s].StreamKey, TypingFrame(s),
                                             conn[s].UserID)
    /\ Return(s)
    /\ UNCHANGED <<now, bufVars, mgrVars, rlVars, rooms, heap, connections, conn,
                   sendClosed, admitted, seen, wpc, nextID, roomLog, script, frames>>

\* A plausible slip in the dispatcher: the error frame goes out with
\* broadcastToRoom instead of sendError.
RecvInvalidBroadcast(s, what) ==
    /\ ClientEvent(s, EvBad(what))
    /\ Broadcast(s, ErrorFrame(BadFrameError(what)))
    /\ UNCHANGED <<now, bufVars, mgrVars, rlVars, rooms, heap, connections, conn,
                   sendClosed, admitted, seen, pc, loc, wpc, nextID, roomLog>>

\* handleMessage and handleJoin turn a frame down with sendError.
RecvInvalid(s, what) ==
    /\ ClientEvent(s, EvBad(what))
    /\ ThenSend(s, ErrorFrame(BadFrameError(what)), "idle")
    /\ UNCHANGED <<now, bufVars, mgrVars, rlVars, rooms, heap, connections, conn, send,
                   sendClosed, admitted, seen, wpc, nextID, roomLog, crashed>>

\* ReadJSON fails (the client went away): readPump leaves its loop.
ReadError(s) ==
    /\ ClientEvent(s, EvClose)
    /\ pc' = [pc EXCEPT ![s] = IF conn[s].UserID # "" THEN "c_remove"
                               ELSE "c_close"]
    /\ UNCHANGED <<now, bufVars, mgrVars, rlVars, rooms, heap, connections, conn, send,
                   sendClosed, admitted, seen, loc, wpc, nextID, roomLog, crashed>>

\* cleanup: Manager.RemoveUser.
CleanupRemove(s) ==
    /\ At(s, "c_remove")
    /\ heap' = RemoveUser(rooms, heap, conn[s].StreamKey, conn[s].UserID)
    /\ pc' = [pc EXCEPT ![s] = "c_unreg"]
    /\ UNCHANGED <<now, bufVars, mgrVars, rlVars, rooms, connections, conn, send,
                   sendClosed, admitted, seen, loc, wpc, nextID, roomLog, script, frames, crashed>>

\* cleanup: delete(connections, c.UserID).
CleanupUnregister(s) ==
    /\ At(s, "c_unreg")
    /\ connections' = [u \in DOMAIN connections \ {conn[s].UserID} |->
                          connections[u]]
    /\ pc' = [pc EXCEPT ![s] = "c_bcast"]
    /\ UNCHANGED <<now, bufVars, mgrVars, rlVars, rooms, heap, conn, send, sendClosed, admitted, seen,
                   loc, wpc, nextID, roomLog, script, frames, crashed>>

\* The user_left frame of session s.
LeftFrame(s) ==
    WSMessage("user_left",
              [userId |-> conn[s].UserID, username |-> conn[s].Username], "")

\* cleanup: the user_left fan-out.
CleanupBroadcast(s) ==
    /\ At(s, "c_bcast")
    /\ Broadcast(s, LeftFrame(s))
    /\ pc' = [pc EXCEPT ![s] = "c_close"]
    /\ UNCHANGED <<now, bufVars, mgrVars, rlVars, rooms, heap, connections, conn,
                   sendClosed, admitted, seen, loc, wpc, nextID, roomLog, script, frames>>

\* cleanup: close(c.Send); closing a closed channel panics.
CleanupClose(s) ==
    /\ At(s, "c_close")
    /\ sendClosed' = [sendClosed EXCEPT ![s] = TRUE]
    /\ crashed' = sendClosed[s]
    /\ pc' = [pc EXCEPT ![s] = "c_sock"]
    /\ UNCHANGED <<now, bufVars, mgrVars, rlVars, rooms, heap, connections, conn, send,
                   admitted, seen, loc, wpc, nextID, roomLog, script, frames>>

\* cleanup: c.Conn.Close(); readPump is over.
CleanupSocket(s) ==
    /\ At(s, "c_sock")
    /\ pc' = [pc EXCEPT ![s] = "closed"]
    /\ UNCHANGED <<now, bufVars, mgrVars, rlVars, rooms, heap, connections, conn, send,
                   sendClosed, admitted, seen, loc, wpc, nextID, roomLog, script,
                   frames, crashed>>

\* writePump takes the next frame off the queue and writes it to the socket;
\* on a socket that cleanup has closed the write fails and writePump returns.
Write(s) ==
    /\ ~crashed
    /\ wpc[s] = "run"
    /\ send[s] # <<>>
    /\ send' = [send EXCEPT ![s] = Tail(@)]
    /\ wpc' = [wpc EXCEPT ![s] = IF pc[s] = "closed" THEN "failed" ELSE "run"]
    /\ UNCHANGED <<now, bufVars, mgrVars, rlVars, rooms, heap, connections, conn,
                   sendClosed, admitted, seen, pc, loc, nextID, roomLog, script,
                   frames, crashed>>

\* writePump finds the queue closed and drained, writes the close frame
\* (which fails on a closed socket) and returns.
WriterExit(s) ==
    /\ ~crashed
    /\ wpc[s] = "run"
    /\ send[s] = <<>>
    /\ sendClosed[s]
    /\ wpc' = [wpc EXCEPT ![s] = IF pc[s] = "closed" THEN "failed" ELSE "done"]
    /\ UNCHANGED <<now, bufVars, mgrVars, rlVars, rooms, heap, connections, conn, send,
                   sendClosed, admitted, seen, pc, loc, nextID, roomLog, script,
                   frames, crashed>>

\* writePump's WriteJSON fails on the broken connection: writePump returns
\* and its deferred c.Conn.Close() closes the socket.
WriteFails(s) ==
    /\ ~crashed
    /\ wpc[s] = "run"
    /\ send[s] # <<>>
    /\ script[s] # <<>>
    /\ Head(script[s]) = EvBreak
    /\ script' = [script EXCEPT ![s] = Tail(@)]
    /\ send' = [send EXCEPT ![s] = Tail(@)]
    /\ wpc' = [wpc EXCEPT ![s] = "failed"]
    /\ UNCHANGED <<now, bufVars, mgrVars, rlVars, rooms, heap, connections, conn,
                   sendClosed, admitted, seen, pc, loc, nextID, roomLog, frames,
                   crashed>>

\* ReadJSON fails on the socket that writePump has closed: readPump leaves
\* its loop.
ReadFails(s) ==
    /\ At(s, "idle")
    /\ wpc[s] # "run"
    /\ pc' = [pc EXCEPT ![s] = IF conn[s].UserID # "" THEN "c_remove"
                               ELSE "c_close"]
    /\ UNCHANGED <<now, bufVars, mgrVars, rlVars, rooms, heap, connections, conn, send,
                   sendClosed, admitted, seen, loc, wpc, nextID, roomLog, script,
                   frames, crashed>>

\* Time passes before the client's next event.
ChatWait(s) ==
    \E secs \in {10, 30} :
        /\ ClientEvent(s, EvWait(secs))
        /\ now' = now + secs
        /\ UNCHANGED <<bufVars, mgrVars, rlVars, rooms, heap, connections, conn, send,
                       sendClosed, admitted, seen, pc, loc, wpc, nextID, roomLog, crashed>>

\* The limiter's cleanupWorker runs performCleanup.
ChatReap ==
    /\ ~crashed
    /\ userRecords' = RateLimiter_performCleanup(userRecords, now)
    /\ userRecords' # userRecords
    /\ UNCHANGED <<now, bufVars, mgrVars, rlGhost, chatVars>>

ChatNext ==
    \/ ChatReap
    \/ \E s \in Sessions :
        \/ \E u \in JoinIDs(s) : RecvJoin(s, u)
        \/ ChatWait(s)
        \/ JoinGetRoom(s)
        \/ JoinCount(s)
        \/ JoinAdd(s)
        \/ JoinRegister(s)
        \/ JoinHistory(s)
        \/ JoinUsers(s)
        \/ JoinTimeout(s)
        \/ JoinBroadcast(s)
        \/ \E text \in ChatTexts : RecvMessage(s, text)
        \/ RecvTyping(s)
        \/ TypingBroadcast(s)
        \/ \E what \in BadFrames : RecvInvalid(s, what)
        \/ MsgGetRoom(s)
        \/ MsgAdd(s)
        \/ MsgBroadcast(s)
        \/ SendOwn(s)
        \/ ReadError(s)
        \/ CleanupRemove(s)
        \/ CleanupUnregister(s)
        \/ CleanupBroadcast(s)
        \/ CleanupClose(s)
        \/ CleanupSocket(s)
        \/ Write(s)
        \/ WriterExit(s)
        \/ WriteFails(s)
        \/ ReadFails(s)

SpecChat == ChatInit /\ [][ChatNext]_vars

\* The goroutines are scheduled fairly: a cleanup that has begun goes on, and
\* a writePump that can take a frame or find its queue closed does so.
ChatFairness ==
    \A s \in Sessions :
        /\ WF_vars(CleanupRemove(s))
        /\ WF_vars(CleanupUnregister(s))
        /\ WF_vars(CleanupBroadcast(s))
        /\ WF_vars(CleanupClose(s))
        /\ WF_vars(CleanupSocket(s))
        /\ WF_vars(Write(s))
        /\ WF_vars(WriterExit(s))

SpecChatLive == SpecChat /\ ChatFairness

\* Every goroutine is scheduled fairly: a readPump that is inside a handler
\* or finds its socket closed takes its next step whenever it can, next to
\* the cleanup and the writePump.
ReaderFairness ==
    \A s \in Sessions :
        /\ WF_vars(JoinGetRoom(s))
        /\ WF_vars(JoinCount(s))
        /\ WF_vars(JoinAdd(s))
        /\ WF_vars(JoinRegister(s))
        /\ WF_vars(JoinHistory(s))
        /\ WF_vars(JoinUsers(s))
        /\ WF_vars(JoinTimeout(s))
        /\ WF_vars(JoinBroadcast(s))
        /\ WF_vars(MsgGetRoom(s))
        /\ WF_vars(MsgAdd(s))
        /\ WF_vars(MsgBroadcast(s))
        /\ WF_vars(TypingBroadcast(s))
        /\ WF_vars(SendOwn(s))
        /\ WF_vars(ReadFails(s))

SpecChatFair == SpecChat /\ ChatFairness /\ ReaderFairness

\* readPump calls cleanup once, when it returns.  What a second call of
\* cleanup does is seen by making one on a session whose cleanup and
\* writePump have returned.
CleanupAgain(s) ==
    /\ At(s, "closed")
    /\ wpc[s] # "run"
    /\ pc' = [pc EXCEPT ![s] = IF conn[s].UserID # "" THEN "c_remove"
                               ELSE "c_close"]
    /\ UNCHANGED <<now, bufVars, mgrVars, rlVars, rooms, heap, connections, conn, send,
                   sendClosed, admitted, seen, loc, wpc, nextID, roomLog, script,
                   frames, crashed>>

CleanupTwiceNext == ChatNext \/ \E s \in Sessions : CleanupAgain(s)

SpecCleanupTwice == ChatInit /\ [][CleanupTwiceNext]_vars

----------------------------------------------------------------------------
\* The Manager on its own: callers of AddUser, AddMessage and RemoveUser, the
\* cleanup worker, the memory monitor and a GetStats request, all of them
\* tasks that take Manager.roomsMux.  A task's function is cut where it takes
\* roomsMux and where it takes a room's lock; a room is reached through the
\* pointer the task holds.  The workers' tickers fire at any time.

Callers == {"c1", "c2"}
Tasks == Callers \cup {"cln", "mon", "st"}
MgrKeys == {"r1", "r2"}
\* The identity the callers act for.
MgrUser == "a"

\* Time passes in steps of MgrTick seconds, MaxMgrTicks times.
MgrTick == 1000
MaxMgrTicks == 2
\* Scaled-down MemoryTracker.MaxBytes (100 MB): two messages are critical.
MgrMaxBytes == 300

\* config.MessageRetentionMinutes and config.InactiveStreamTimeout, in
\* seconds, and the age performEmergencyCleanup keeps.
MessageRetention == 30 * 60
InactiveStreamTimeout == 10 * 60
EmergencyRetention == 10 * 60

\* sync.RWMutex: a pending Lock keeps new readers out.
NewRWMutex == [writer |-> "", readers |-> {}, waiting |-> {}]
CanLock(m) == m.writer = "" /\ m.readers = {}
CanRLock(m) == m.writer = "" /\ m.waiting = {}

NewMemoryTracker == [TotalBytes |-> 0, TotalMessages |-> 0, ActiveStreams |-> 0]

\* MemoryTracker.IsCritical: TotalBytes / MaxBytes > 0.9
IsCritical(mt) == 10 * mt.TotalBytes > 9 * MgrMaxBytes

NoTaskLocals ==
    [op |-> "", key |-> "", room |-> 0, todo |-> {}, del |-> {},
     users |-> 0, msgs |-> 0]

\* The sum of v, a number per room id, over the rooms of directory d.
RECURSIVE SumRooms(_, _, _)
SumRooms(d, v, keys) ==
    IF keys = {} THEN 0
    ELSE LET k == CHOOSE x \in keys : TRUE
         IN  v[d[k]] + SumRooms(d, v, keys \ {k})

\* The totals of the directory at this moment: users, buffered messages.
TotalsNow ==
    <<SumRooms(rooms, [i \in DOMAIN heap |-> UserCount(heap[i])], DOMAIN rooms),
      SumRooms(rooms, [i \in DOMAIN heap |-> Size(heap[i].Messages)],
               DOMAIN rooms)>>

\* A Manager call: the function and the stream key.
Call(op, k) == [op |-> op, key |-> k]

\* What happens to a Manager: the calls of each caller, in its order, and how
\* often the cleanup worker, the monitor and GetStats run; Stop is not
\* called unless the scenario says so.
MgrScenario(calls1, calls2, cln, mon, st) ==
    [script |-> [c \in Callers |-> IF c = "c1" THEN calls1 ELSE calls2],
     runs |-> [t \in (Tasks \ Callers) \cup {"stop"} |->
                  CASE t = "cln" -> cln [] t = "mon" -> mon [] t = "st" -> st
                    [] t = "stop" -> 0]]

\* A user joins a room and leaves it while messages arrive and the cleanup
\* worker passes.
MgrJoinLeave ==
    MgrScenario(<<Call("AddUser", "r1"), Call("RemoveUser", "r1")>>,
                <<Call("AddMessage", "r2")>>, 2, 0, 0)
\* A user leaves one room while it joins another, a message arrives and the
\* totals are asked for.
MgrMove ==
    MgrScenario(<<Call("AddUser", "r1"), Call("RemoveUser", "r1")>>,
                <<Call("AddUser", "r2"), Call("AddMessage", "r2")>>, 0, 0, 1)
\* Messages fill the memory under the monitor's eyes while a user joins.
MgrFill ==
    MgrScenario(<<Call("AddMessage", "r1"), Call("AddMessage", "r1")>>,
                <<Call("AddUser", "r1"), Call("RemoveUser", "r1")>>, 1, 2, 0)

\* The Manager is stopped while messages arrive, a user joins and the
\* workers' tickers fire.
MgrStop ==
    [MgrScenario(<<Call("AddMessage", "r1"), Call("AddMessage", "r1")>>,
                 <<Call("AddUser", "r1")>>, 1, 1, 0)
        EXCEPT !.runs["stop"] = 1]

MgrScenarios == {MgrJoinLeave, MgrMove, MgrFill, MgrStop}

\* NewManager; no session exists.
MgrInit ==
    /\ now = 0
    /\ BufIdle
    /\ RLIdle
    /\ ChatIdle
    /\ mux = NewRWMutex
    /\ tpc = [t \in Tasks |-> "idle"]
    /\ tloc = [t \in Tasks |-> NoTaskLocals]
    /\ memTracker = NewMemoryTracker
    /\ \E sc \in MgrScenarios :
        /\ mgrScript = sc.script
        /\ mgrRuns = sc.runs
    /\ statsSeen = {}
    /\ statsOut = [total_rooms |-> 0, total_users |-> 0, total_messages |-> 0]
    /\ stopped = FALSE

\* The history of totals grows while a GetStats request is under way.
Observe ==
    statsSeen' = IF tpc["st"] # "idle" THEN statsSeen \cup {TotalsNow'}
                 ELSE statsSeen

\* A caller enters AddUser, AddMessage (both begin with GetOrCreateRoom, which
\* asks for the write lock) or RemoveUser (which begins with GetRoom).
MgrCall(c) ==
    /\ tpc[c] = "idle"
    /\ mgrScript[c] # <<>>
    /\ mgrScript' = [mgrScript EXCEPT ![c] = Tail(@)]
    /\ tloc' = [tloc EXCEPT ![c] =
                   [NoTaskLocals EXCEPT !.op = Head(mgrScript[c]).op,
                                        !.key = Head(mgrScript[c]).key]]
    /\ IF Head(mgrScript[c]).op = "RemoveUser"
       THEN /\ tpc' = [tpc EXCEPT ![c] = "rlock"]
            /\ mux' = mux
       ELSE /\ tpc' = [tpc EXCEPT ![c] = "lock"]
            /\ mux' = [mux EXCEPT !.waiting = @ \cup {c}]
    /\ UNCHANGED <<now, stopped, bufVars, rlVars, sessVars, rooms, heap, nextID,
                   roomLog, memTracker, mgrRuns, statsSeen, statsOut>>

\* A worker's ticker fires, or a request comes in.
Begin(t) ==
    /\ tpc[t] = "idle"
    /\ mgrRuns[t] > 0
    /\ mgrRuns' = [mgrRuns EXCEPT ![t] = @ - 1]

\* cleanupWorker's ticker fires: performCleanup asks for the write lock.
ClnTick ==
    /\ Begin("cln")
    /\ tpc' = [tpc EXCEPT !["cln"] = "lock"]
    /\ mux' = [mux EXCEPT !.waiting = @ \cup {"cln"}]
    /\ UNCHANGED <<now, stopped, bufVars, rlVars, sessVars, rooms, heap, nextID,
                   roomLog, tloc, memTracker, mgrScript, statsSeen, statsOut>>

\* monitorWorker's ticker fires: updateMemoryStats asks for the read lock.
MonTick ==
    /\ Begin("mon")
    /\ tpc' = [tpc EXCEPT !["mon"] = "rlock"]
    /\ UNCHANGED <<now, stopped, bufVars, rlVars, sessVars, rooms, heap, nextID,
                   roomLog, mux, tloc, memTracker, mgrScript, statsSeen,
                   statsOut>>

\* Manager.Stop closes the two stop channels.  Called once: a second close
\* of a channel would panic.
Stop ==
    /\ ~stopped
    /\ mgrRuns["stop"] > 0
    /\ mgrRuns' = [mgrRuns EXCEPT !["stop"] = @ - 1]
    /\ stopped' = TRUE
    /\ UNCHANGED <<now, bufVars, rlVars, chatVars, mux, tpc, tloc, memTracker,
                   mgrScript, statsSeen, statsOut>>

\* A worker back at its select finds its stop channel closed and returns.
\* While the ticker is ready too, select may still take the tick.
WorkerExit(t) ==
    /\ t \in {"cln", "mon"}
    /\ stopped
    /\ tpc[t] = "idle"
    /\ tpc' = [tpc EXCEPT ![t] = "exited"]
    /\ UNCHANGED <<now, stopped, bufVars, rlVars, chatVars, mux, tloc,
                   memTracker, mgrScript, mgrRuns, statsSeen, statsOut>>

\* A GetStats request asks for the read lock.
StatsCall ==
    /\ Begin("st")
    /\ tpc' = [tpc EXCEPT !["st"] = "rlock"]
    /\ statsSeen' = {TotalsNow}
    /\ UNCHANGED <<now, stopped, bufVars, rlVars, sessVars, rooms, heap, nextID,
                   roomLog, mux, tloc, memTracker, mgrScript, statsOut>>

\* Every room of directory d after CleanupOldMessages(retention) at time t.
RECURSIVE CleanupRooms(_, _, _, _, _)
CleanupRooms(d, h, keys, retention, t) ==
    IF keys = {} THEN h
    ELSE LET k == CHOOSE x \in keys : TRUE
         IN  CleanupRooms(d, [h EXCEPT ![d[k]] =
                                  CleanupOldMessages(@, retention, t)[1]],
                          keys \ {k}, retention, t)

\* roomsMux.Lock() returns for task t, which goes on to its next lock:
\* GetOrCreateRoom runs and unlocks; performCleanup begins its pass over the
\* rooms; performEmergencyCleanup runs, unlocks and returns to
\* updateMemoryStats, which returns and releases its read lock.
LockAcquire(t) ==
    /\ t \in mux.waiting
    /\ CanLock(mux)
    /\ IF t \in Callers
       THEN LET g == GetOrCreateRoom(rooms, heap, tloc[t].key, now)
            IN  /\ rooms' = g.rooms
                /\ heap' = g.heap
                /\ tloc' = [tloc EXCEPT ![t].room = g.room]
                /\ tpc' = [tpc EXCEPT ![t] = IF tloc[t].op = "AddUser"
                                             THEN "count" ELSE "add_msg"]
                /\ mux' = [mux EXCEPT !.waiting = @ \ {t}]
       ELSE IF t = "cln"
       THEN /\ mux' = [mux EXCEPT !.waiting = @ \ {t}, !.writer = t]
            /\ tloc' = [tloc EXCEPT ![t].todo = DOMAIN rooms, ![t].del = {}]
            /\ tpc' = [tpc EXCEPT ![t] = "pass"]
            /\ UNCHANGED <<rooms, heap>>
       ELSE /\ heap' = CleanupRooms(rooms, heap, DOMAIN rooms,
                                    EmergencyRetention, now)
            /\ mux' = [mux EXCEPT !.waiting = @ \ {t}, !.readers = @ \ {t}]
            /\ tpc' = [tpc EXCEPT ![t] = "idle"]
            /\ UNCHANGED <<rooms, tloc>>
    /\ UNCHANGED <<now, stopped, bufVars, rlVars, sessVars, nextID, roomLog,
                   memTracker, mgrScript, mgrRuns, statsOut>>
    /\ Observe

\* roomsMux.RLock() returns for task t: GetRoom looks the room up and
\* unlocks; GetStats begins its loop over the rooms; updateMemoryStats sums
\* BytesUsed and MessageCount over the rooms, updates the tracker and, if the
\* tracker is critical, calls performEmergencyCleanup with the read lock
\* still held (its RUnlock is deferred).
RLockAcquire(t) ==
    /\ tpc[t] = "rlock"
    /\ CanRLock(mux)
    /\ IF t \in Callers
       THEN /\ IF GetRoom(rooms, tloc[t].key)[2]
               THEN /\ tloc' = [tloc EXCEPT ![t].room =
                                   GetRoom(rooms, tloc[t].key)[1]]
                    /\ tpc' = [tpc EXCEPT ![t] = "remove"]
               ELSE /\ tloc' = [tloc EXCEPT ![t] = NoTaskLocals]
                    /\ tpc' = [tpc EXCEPT ![t] = "idle"]
            /\ UNCHANGED <<mux, memTracker>>
       ELSE IF t = "st"
       THEN /\ mux' = [mux EXCEPT !.readers = @ \cup {t}]
            /\ tloc' = [tloc EXCEPT ![t] =
                           [NoTaskLocals EXCEPT !.todo = DOMAIN rooms]]
            /\ tpc' = [tpc EXCEPT ![t] = "stats"]
            /\ UNCHANGED memTracker
       ELSE LET mt == [TotalBytes |->
                           SumRooms(rooms,
                                    [i \in DOMAIN heap |-> heap[i].BytesUsed],
                                    DOMAIN rooms),
                       TotalMessages |->
                           SumRooms(rooms,
                                    [i \in DOMAIN heap |-> heap[i].MessageCount],
                                    DOMAIN rooms),
                       ActiveStreams |-> Cardinality(DOMAIN rooms)]
            IN  /\ memTracker' = mt
                /\ IF IsCritical(mt)
                   THEN /\ mux' = [mux EXCEPT !.readers = @ \cup {t},
                                              !.waiting = @ \cup {t}]
                        /\ tpc' = [tpc EXCEPT ![t] = "lock"]
                   ELSE /\ mux' = mux
                        /\ tpc' = [tpc EXCEPT ![t] = "idle"]
                /\ UNCHANGED tloc
    /\ UNCHANGED <<now, stopped, bufVars, rlVars, sessVars, rooms, heap, nextID,
                   roomLog, mgrScript, mgrRuns, statsSeen, statsOut>>

\* Manager.AddUser: the user limit, read under the room's read lock.
MgrCount(c) ==
    /\ tpc[c] = "count"
    /\ IF UserCount(heap[tloc[c].room]) >= MaxUsersPerStream
       THEN /\ tpc' = [tpc EXCEPT ![c] = "idle"]
            /\ tloc' = [tloc EXCEPT ![c] = NoTaskLocals]
       ELSE /\ tpc' = [tpc EXCEPT ![c] = "add_user"]
            /\ tloc' = tloc
    /\ UNCHANGED <<now, stopped, bufVars, rlVars, sessVars, rooms, heap, nextID,
                   roomLog, mux, memTracker, mgrScript, mgrRuns, statsSeen, statsOut>>

\* Manager.AddUser: room.AddUser under the room's write lock.
MgrAddUser(c) ==
    /\ tpc[c] = "add_user"
    /\ heap' = [heap EXCEPT ![tloc[c].room] =
                   ChatRoom_AddUser(@, ChatUser(MgrUser, UsernameOf(MgrUser),
                                                now), now)]
    /\ tpc' = [tpc EXCEPT ![c] = "idle"]
    /\ tloc' = [tloc EXCEPT ![c] = NoTaskLocals]
    /\ UNCHANGED <<now, stopped, bufVars, rlVars, sessVars, rooms, nextID, roomLog,
                   mux, memTracker, mgrScript, mgrRuns, statsOut>>
    /\ Observe

\* Manager.AddMessage: room.AddMessage under the room's message lock.
MgrAddMessage(c) ==
    /\ tpc[c] = "add_msg"
    /\ LET msg == ChatMessage(nextID, tloc[c].key, MgrUser,
                              UsernameOf(MgrUser), TxtX, now)
       IN  /\ heap' = [heap EXCEPT ![tloc[c].room] =
                          ChatRoom_AddMessage(@, msg, now)]
           /\ roomLog' = [i \in DOMAIN heap |->
                             IF i = tloc[c].room THEN Append(LogOf(i), msg)
                             ELSE LogOf(i)]
    /\ nextID' = nextID + 1
    /\ tpc' = [tpc EXCEPT ![c] = "idle"]
    /\ tloc' = [tloc EXCEPT ![c] = NoTaskLocals]
    /\ UNCHANGED <<now, stopped, bufVars, rlVars, sessVars, rooms, mux, memTracker,
                   mgrScript, mgrRuns, statsOut>>
    /\ Observe

\* Manager.RemoveUser: room.RemoveUser under the room's write lock.
MgrRemoveUser(c) ==
    /\ tpc[c] = "remove"
    /\ heap' = [heap EXCEPT ![tloc[c].room] = ChatRoom_RemoveUser(@, MgrUser)]
    /\ tpc' = [tpc EXCEPT ![c] = "idle"]
    /\ tloc' = [tloc EXCEPT ![c] = NoTaskLocals]
    /\ UNCHANGED <<now, stopped, bufVars, rlVars, sessVars, rooms, nextID, roomLog,
                   mux, memTracker, mgrScript, mgrRuns, statsOut>>
    /\ Observe

\* performCleanup, one turn of its loop: the room's old messages go, and an
\* empty room whose last activity is older than the timeout is marked.
ClnRoom(k) ==
    /\ tpc["cln"] = "pass"
    /\ k \in tloc["cln"].todo
    /\ LET id == rooms[k]
           room == CleanupOldMessages(heap[id], MessageRetention, now)[1]
           old == /\ UserCount(room) = 0
                  /\ now - room.LastActivity > InactiveStreamTimeout
       IN  /\ heap' = [heap EXCEPT ![id] = room]
           /\ tloc' = [tloc EXCEPT !["cln"].todo = @ \ {k},
                                   !["cln"].del = IF old THEN @ \cup {k} ELSE @]
    /\ UNCHANGED <<now, stopped, bufVars, rlVars, sessVars, rooms, nextID, roomLog,
                   mux, tpc, memTracker, mgrScript, mgrRuns, statsOut>>
    /\ Observe

\* performCleanup: the marked rooms leave the directory, the lock is released.
ClnDone ==
    /\ tpc["cln"] = "pass"
    /\ tloc["cln"].todo = {}
    /\ rooms' = [k \in DOMAIN rooms \ tloc["cln"].del |-> rooms[k]]
    /\ mux' = [mux EXCEPT !.writer = ""]
    /\ tpc' = [tpc EXCEPT !["cln"] = "idle"]
    /\ tloc' = [tloc EXCEPT !["cln"] = NoTaskLocals]
    /\ UNCHANGED <<now, stopped, bufVars, rlVars, sessVars, heap, nextID, roomLog,
                   memTracker, mgrScript, mgrRuns, statsOut>>
    /\ Observe

\* GetStats, one turn of its loop, first half: room.UserCount().
StatsUsers(k) ==
    /\ tpc["st"] = "stats"
    /\ tloc["st"].key = ""
    /\ k \in tloc["st"].todo
    /\ tloc' = [tloc EXCEPT !["st"].key = k,
                            !["st"].users = @ + UserCount(heap[rooms[k]])]
    /\ UNCHANGED <<now, stopped, bufVars, rlVars, sessVars, rooms, heap, nextID,
                   roomLog, mux, tpc, memTracker, mgrScript, mgrRuns, statsSeen,
                   statsOut>>

\* GetStats, second half of the turn: room.Messages.Size().
StatsSize ==
    /\ tpc["st"] = "stats"
    /\ tloc["st"].key # ""
    /\ tloc' = [tloc EXCEPT !["st"].key = "",
                            !["st"].todo = @ \ {tloc["st"].key},
                            !["st"].msgs =
                                @ + Size(heap[rooms[tloc["st"].key]].Messages)]
    /\ UNCHANGED <<now, stopped, bufVars, rlVars, sessVars, rooms, heap, nextID,
                   roomLog, mux, tpc, memTracker, mgrScript, mgrRuns, statsSeen,
                   statsOut>>

\* GetStats returns its map and releases the read lock.
StatsReturn ==
    /\ tpc["st"] = "stats"
    /\ tloc["st"].key = ""
    /\ tloc["st"].todo = {}
    /\ statsOut' = [total_rooms |-> Cardinality(DOMAIN rooms),
                    total_users |-> tloc["st"].users,
                    total_messages |-> tloc["st"].msgs]
    /\ mux' = [mux EXCEPT !.readers = @ \ {"st"}]
    /\ tpc' = [tpc EXCEPT !["st"] = "idle"]
    /\ tloc' = [tloc EXCEPT !["st"] = NoTaskLocals]
    /\ UNCHANGED <<now, stopped, bufVars, rlVars, sessVars, rooms, heap, nextID,
                   roomLog, memTracker, mgrScript, mgrRuns, statsSeen>>

\* Time passes; a cleanup pass and a GetStats request take no time to speak
\* of against MgrTick.
MgrAdvance ==
    /\ now < MaxMgrTicks * MgrTick
    /\ tpc["cln"] # "pass"
    /\ tpc["st"] # "stats"
    /\ now' = now + MgrTick
    /\ UNCHANGED <<bufVars, rlVars, chatVars, mgrVars>>

MgrNext ==
    \/ \E c \in Callers : MgrCall(c)
    \/ ClnTick
    \/ MonTick
    \/ StatsCall
    \/ \E t \in Tasks : LockAcquire(t)
    \/ \E t \in Tasks : RLockAcquire(t)
    \/ \E c \in Callers :
        \/ MgrCount(c)
        \/ MgrAddUser(c)
        \/ MgrAddMessage(c)
        \/ MgrRemoveUser(c)
    \/ \E k \in MgrKeys : ClnRoom(k)
    \/ ClnDone
    \/ \E k \in MgrKeys : StatsUsers(k)
    \/ StatsSize
    \/ StatsReturn
    \/ Stop
    \/ \E t \in {"cln", "mon"} : WorkerExit(t)
    \/ MgrAdvance

SpecMgr == MgrInit /\ [][MgrNext]_vars

\* The goroutines are scheduled fairly and sync.RWMutex starves nobody: a
\* task that can get the lock again and again gets it, and a task inside a
\* function goes on.
MgrFairness ==
    /\ \A t \in Tasks : SF_vars(LockAcquire(t)) /\ SF_vars(RLockAcquire(t))
    /\ \A c \in Callers :
           /\ WF_vars(MgrCount(c))
           /\ WF_vars(MgrAddUser(c))
           /\ WF_vars(MgrAddMessage(c))
           /\ WF_vars(MgrRemoveUser(c))
    /\ WF_vars(\E k \in MgrKeys : ClnRoom(k))
    /\ WF_vars(ClnDone)
    /\ WF_vars(\E k \in MgrKeys : StatsUsers(k))
    /\ WF_vars(StatsSize)
    /\ WF_vars(StatsReturn)
    /\ \A t \in {"cln", "mon"} : WF_vars(WorkerExit(t))

SpecMgrLive == SpecMgr /\ MgrFairness

----------------------------------------------------------------------------
----------------------------------------------------------------------------
\* Claims about the limiter (SpecRL).

\* The step is a CheckMessage call; rlLast' holds its arguments and result.
RLCheckStep == rlLast'.n = rlLast.n + 1

\* The record the call finds, or the one getOrCreateRecord makes for it.
PreRecord(u) ==
    IF u \in DOMAIN userRecords THEN userRecords[u]
    ELSE NewUserRateRecord(u, now)

\* C5: Rate-limiter monotone timeout.  Once a check for user-id U has set a
\* timeout ending at T, every check for U at a time before T returns
\* TIMEOUT, whatever the text, also when the reaper ran in between.
C5_MonotoneTimeout ==
    [][(RLCheckStep /\ now < rlDue[rlLast'.user])
           => rlLast'.err.Code = "TIMEOUT"]_vars

\* The tiers of the decision table, each stated on the history H the windows
\* are computed on (the record after the lazy self-cleanup).
InLast(H, window, t) ==
    Cardinality({i \in 1..Len(H.Messages) : H.Messages[i] > t - window})

CharsInLast(H, window, t) ==
    SumOver(H.CharCountHistory,
            {i \in 1..Len(H.Messages) : H.Messages[i] > t - window})

Similar(a, b) ==
    LET na == ToLower(TrimSpace(a))
        nb == ToLower(TrimSpace(b))
    IN  IF na = nb THEN TRUE
        ELSE IF TLen(na) = 0 \/ TLen(nb) = 0 THEN FALSE
        ELSE matches(na, nb) * 10 > 8 * Max(TLen(na), TLen(nb))

SimilarAmongLast5(H, text) ==
    LET n == Len(H.MessageContents)
    IN  Cardinality({i \in Max(1, n - 4)..n : Similar(H.MessageContents[i], text)})

Outcome(code, timeout, dv) == [code |-> code, timeout |-> timeout, dv |-> dv]

\* The first row of the table whose trigger holds: its code, the timeout it
\* sets (0: none) and what it adds to the violation count.
FirstMatch(pre, H, text, t) ==
    LET len == TLen(text)
    IN  IF t < pre.TimeoutUntil THEN Outcome("TIMEOUT", 0, 0)
        ELSE IF len > 500 THEN Outcome("MESSAGE_TOO_LONG", 0, 0)
        ELSE IF InLast(H, 10, t) >= 5 THEN Outcome("RATE_LIMIT", 30, 1)
        ELSE IF InLast(H, 30, t) >= 10 THEN Outcome("SPAM_DETECTED", 120, 1)
        ELSE IF InLast(H, 60, t) >= 20 THEN Outcome("HEAVY_SPAM", 300, 2)
        ELSE IF len > 300 /\ InLast(H, 10, t) >= 1
        THEN Outcome("RATE_LIMIT_LONG_MESSAGE", 0, 0)
        ELSE IF len > 100 /\ InLast(H, 10, t) >= 3
        THEN Outcome("RATE_LIMIT_MEDIUM_MESSAGE", 0, 0)
        ELSE IF SimilarAmongLast5(H, text) >= 3
        THEN Outcome("DUPLICATE_SPAM", 300, 1)
        ELSE IF len >= 400 /\ CharsInLast(H, 300, t) > 2000
        THEN Outcome("HEAVY_TEXT_SPAM", 600, 2)
        ELSE IF pre.Violations >= 5 THEN Outcome("REPEAT_OFFENDER", 1800, 0)
        ELSE IF pre.Violations >= 4 THEN Outcome("REPEAT_OFFENDER", 600, 0)
        ELSE IF pre.Violations >= 3 THEN Outcome("REPEAT_OFFENDER", 300, 0)
        ELSE Outcome("", 0, 0)

\* C6: Rate-limiter first-match.  Every check returns the outcome of the
\* first tier whose trigger holds, in the order T0, T1, T2a, T2b, T2c,
\* T3-long, T3-med, T4, T5, Escalation, Allow, and applies only that tier's
\* timeout and violation change.
C6_FirstMatch ==
    [][RLCheckStep =>
          LET u == rlLast'.user
              pre == PreRecord(u)
              exp == FirstMatch(pre, cleanup(pre, now), rlLast'.text, now)
              post == userRecords'[u]
          IN  /\ rlLast'.err.Code = exp.code
              /\ rlLast'.allowed = (exp.code = "")
              /\ post.TimeoutUntil =
                     IF exp.timeout > 0 THEN now + exp.timeout
                     ELSE pre.TimeoutUntil
              /\ post.Violations = pre.Violations + exp.dv]_vars

\* A check at which the duplicate tier and the text-volume tier both
\* trigger, and the duplicate tier, first in the order, decided.
C6_Witness ==
    /\ rlLast.n > 0
    /\ rlLast.err.Code = "DUPLICATE_SPAM"
    /\ rlLast.user \in DOMAIN userRecords
    /\ TLen(rlLast.text) >= 400
    /\ CharsInLast(userRecords[rlLast.user], 300, rlLast.at) > 2000

\* The user's history holds exactly k messages, all of them the text now
\* sent, the user has no timeout and no violation, and the message is paced
\* and sized so that no frequency or size tier matches.
PacedIdentical(k) ==
    LET u == rlLast'.user
        text == rlLast'.text
        pre == PreRecord(u)
        H == cleanup(pre, now)
    IN  /\ RLCheckStep
        /\ ~(now < pre.TimeoutUntil)
        /\ pre.Violations = 0
        /\ Len(H.MessageContents) = k
        /\ \A i \in 1..k : H.MessageContents[i] = text
        /\ TLen(text) <= 500
        /\ ~(TLen(text) > 300 /\ InLast(H, 10, now) >= 1)
        /\ ~(TLen(text) > 100 /\ InLast(H, 10, now) >= 3)

DeniedAsDuplicate ==
    /\ ~rlLast'.allowed
    /\ rlLast'.err.Code = "DUPLICATE_SPAM"
    /\ userRecords'[rlLast'.user].TimeoutUntil = now + 300

\* C8 as stated: of three identical, paced messages the first two are
\* allowed and the third is denied with DUPLICATE_SPAM and a timeout of
\* now + 5 minutes.
C8_ThirdIdenticalDenied ==
    [][/\ (PacedIdentical(0) \/ PacedIdentical(1)) => rlLast'.allowed
       /\ PacedIdentical(2) => DeniedAsDuplicate]_vars

\* C8 as amended: of four identical, paced messages the first three
\* are allowed and the fourth is denied with DUPLICATE_SPAM and a timeout of
\* now + 5 minutes.
C8_FourthIdenticalDenied ==
    [][/\ (PacedIdentical(0) \/ PacedIdentical(1) \/ PacedIdentical(2))
           => rlLast'.allowed
       /\ PacedIdentical(3) => DeniedAsDuplicate]_vars

\* The fourth of four identical messages was just denied as a duplicate.
C8_Witness ==
    /\ rlLast.n = 4
    /\ rlLast.err.Code = "DUPLICATE_SPAM"
    /\ rlLast.user \in DOMAIN userRecords
    /\ userRecords[rlLast.user].MessageContents
           = <<rlLast.text, rlLast.text, rlLast.text>>
    /\ userRecords[rlLast.user].TimeoutUntil = rlLast.at + 300

----------------------------------------------------------------------------
\* Claims about the sessions, checked under SpecChat.

\* Session t is in the registry and bound to stream R.
Registered(t, R) ==
    /\ conn[t].StreamKey = R
    /\ \E u \in DOMAIN connections : connections[u] = t

\* The number of registry entries that refer to session t.
Entries(t) == Cardinality({u \in DOMAIN connections : connections[u] = t})

\* Queue q followed by n copies of frame.
RECURSIVE Copies(_, _, _)
Copies(q, frame, n) == IF n = 0 THEN q ELSE Copies(Append(q, frame), frame, n - 1)

\* Session s completes the fan-out of its `message` frame.
MsgBroadcastStep(s) == pc[s] = "m_bcast" /\ pc'[s] = "idle" /\ ~crashed'

\* C1: Fan-out scope.  When a joined session's allowed message is fanned
\* out, every session registered with the sender's stream-id whose queue has
\* a free slot receives exactly one `message` frame carrying it, the sender's
\* session included, and no session bound to another stream-id receives it.
C1_FanOutScope ==
    [][\A s \in Sessions :
          MsgBroadcastStep(s) =>
              \A t \in Sessions :
                  IF conn[t].StreamKey = conn[s].StreamKey
                  THEN (Registered(t, conn[s].StreamKey)
                            /\ Len(send[t]) < QueueCap)
                           => send'[t] = Append(send[t], loc[s].frame)
                  ELSE send'[t] = send[t]]_vars

\* C2: Per-recipient order.  Two `message` frames that sit on one
\* recipient's queue are there in the order in which their messages were
\* appended to the room's buffer (IDs are handed out in append order).
C2_AppendOrder ==
    \A t \in DOMAIN send :
        \A i, j \in DOMAIN send[t] :
            (/\ i < j
             /\ send[t][i].Type = "message"
             /\ send[t][j].Type = "message"
             /\ send[t][i].Data.ID # send[t][j].Data.ID)
                => send[t][i].Data.ID < send[t][j].Data.ID

\* C4: Roster cap.  Whatever joins ran, concurrently or not, no room's roster
\* is larger than max-users-per-stream.
C4_RosterCap ==
    \A i \in DOMAIN heap : UserCount(heap[i]) <= MaxUsersPerStream

\* Session s takes a `message` frame with a text while it has a user-id:
\* handleChatMessage asks the limiter.
MessageCheckStep(s) == pc[s] = "idle" /\ loc'[s].text # <<>>

\* The limiter's verdict on that frame.
Verdict(s) == CheckMessage(userRecords, conn[s].UserID, loc'[s].text, now)

\* The handler of s puts the frame of a denial on its own queue.
DenialSendStep(s) == pc[s] = "send" /\ pc'[s] = "idle" /\ loc[s].err # NoError

----------------------------------------------------------------------------
\* Session s is past the limiter's timeout status in handleJoin.
JoinTimeoutStep(s) == pc[s] = "j_timeout" /\ pc'[s] # "j_timeout"

\* Session s completes the fan-out of its user_joined frame.
JoinBroadcastStep(s) == pc[s] = "j_bcast" /\ pc'[s] = "idle" /\ ~crashed'

\* The limiter holds an active timeout for user-id u.
TimedOut(u) == u \in DOMAIN userRecords /\ now < userRecords[u].TimeoutUntil

\* The user_joined frame for the identity session s joined with.
UserJoined(s) ==
    [Type |-> "user_joined",
     Data |-> [userId |-> conn[s].UserID, username |-> conn[s].Username],
     Error |-> ""]

\* The frames a join has put on the joiner's own queue before its fan-out.
OwnJoinFrames(s) ==
    loc[s].sent \in {<<"history", "users">>, <<"history", "users", "timeout">>}

----------------------------------------------------------------------------
\* Record R holds k allowed messages, all of the last 10 s, and neither a
\* violation nor an active timeout: the user is k messages into a burst from
\* a clean record.
BackToBack(R, k) ==
    /\ R.Violations = 0
    /\ R.TimeoutUntil <= now
    /\ Len(R.Messages) = k
    /\ \A i \in 1..k : R.Messages[i] > now - 10

\* The limiter denied the sixth message of such a burst and the five before
\* it are the record's whole history.
AfterBurst(R) ==
    /\ R.Violations = 1
    /\ Len(R.Messages) = 5
    /\ now < R.TimeoutUntil
    /\ R.TimeoutUntil <= R.Messages[5] + 10 + 30

\* The handler of s appends its message to the room.
MsgAddStep(s) == pc[s] = "m_add" /\ pc'[s] = "m_bcast"

\* The sixth message of a burst: a rate_limit frame for the sender, a 30 s
\* timeout, nothing appended or fanned out.
SixthDenied(s) ==
    /\ pc'[s] = "send"
    /\ loc'[s].next = "idle"
    /\ loc'[s].frame.Type = "rate_limit"
    /\ loc'[s].err.Code = "RATE_LIMIT"
    /\ userRecords'[conn[s].UserID].TimeoutUntil = now + 30
    /\ send' = send
    /\ heap' = heap

----------------------------------------------------------------------------
\* handleJoin takes the history snapshot of session s.
JoinHistoryStep(s) == pc[s] = "j_hist" /\ pc'[s] = "send"

\* The last n elements of a sequence, in their order.
LastOf(seq, n) == SubSeq(seq, Len(seq) - n + 1, Len(seq))

\* C11: the history frame a joiner is sent holds the min(100, size) most
\* recent messages of the room's buffer, oldest first: of everything ever
\* appended to the room, the last min(100, size), in the order of appending.
C11_HistoryContent ==
    [][\A s \in Sessions :
          JoinHistoryStep(s) =>
              LET id == rooms[conn[s].StreamKey]
                  n == Min(100, heap[id].Messages.size)
              IN  /\ loc'[s].frame.Type = "history"
                  /\ loc'[s].frame.Data = LastOf(LogOf(id), n)
                  /\ heap[id].Messages.size = Min(BufCap, Len(LogOf(id)))]_vars

\* A joiner of a room of capacity 3 that was sent five messages is about to
\* get the third, fourth and fifth of them as its history.
C11_Witness ==
    \E s \in DOMAIN pc :
        /\ pc[s] = "send"
        /\ loc[s].frame.Type = "history"
        /\ Len(LogOf(rooms[conn[s].StreamKey])) = 5
        /\ Len(loc[s].frame.Data) = 3
        /\ \A i \in 1..3 : loc[s].frame.Data[i].ID = i + 2

----------------------------------------------------------------------------
\* C12: a session whose join was turned down with ROOM_FULL stays un-joined.
\* No room.AddUser has ever taken a user from it, so it is answered 'Not
\* joined to chat' and never gets as far as appending a message, and when it
\* closes, its cleanup goes straight to closing the queue: it removes no user,
\* deletes no registry entry and fans out no user_left.
C12_RejectedJoinStaysUnjoined ==
    \A s \in DOMAIN pc :
        admitted[s] = {} =>
            pc[s] \notin {"m_room", "m_add", "m_bcast",
                          "c_remove", "c_unreg", "c_bcast"}

----------------------------------------------------------------------------
\* handleJoin registers session s under its user-id.
RegisterStep(s) == pc[s] = "j_reg" /\ pc'[s] = "j_hist"

\* The session registered under user-id u before s registers, if another one.
PriorSessions(s) ==
    {p \in Sessions \ {s} :
        conn[s].UserID \in DOMAIN connections /\ connections[conn[s].UserID] = p}

\* C13: the registry holds one session per user-id.  When a session joins with
\* a user-id under which another session is registered, the entry becomes the
\* new session, and from then on no fan-out reaches the prior session: it has
\* no registry entry left, and the queue of a session without a registry entry
\* grows only by the frames its own handler sends.
C13_RegistryUniqueness ==
    [][/\ \A s \in Sessions :
              RegisterStep(s) =>
                  /\ connections'[conn[s].UserID] = s
                  /\ \A p \in PriorSessions(s) : Entries(p)' = 0
       /\ \A p \in Sessions :
              (Entries(p) = 0 /\ Len(send'[p]) > Len(send[p]))
                  => pc[p] = "send"]_vars

----------------------------------------------------------------------------
\* The steps of cleanup by session s.
RemoveStep(s) == pc[s] = "c_remove" /\ pc'[s] = "c_unreg"
UnregisterStep(s) == pc[s] = "c_unreg" /\ pc'[s] = "c_bcast"
LeftBroadcastStep(s) == pc[s] = "c_bcast" /\ pc'[s] = "c_close"

\* The room of the stream of session s has no user with the session's id.
OffRoster(s) ==
    \A i \in DOMAIN heap :
        heap[i].StreamKey = conn[s].StreamKey
            => conn[s].UserID \notin DOMAIN heap[i].Users

\* C14: when the reader of a session with a bound user-id exits, cleanup
\* takes the user off the roster, then takes the session out of the registry,
\* then fans out user_left to the sessions still registered for the stream and
\* not to the leaving session, then closes the queue; and from there on the
\* writer eventually has written every queued frame and the close frame and
\* has returned.
C14_CleanupPath ==
    /\ [][\A s \in Sessions :
              /\ RemoveStep(s) => OffRoster(s)'
              /\ UnregisterStep(s) => Entries(s)' = 0
              /\ LeftBroadcastStep(s) =>
                     /\ ~crashed'
                     /\ send'[s] = send[s]
                     /\ \A t \in Sessions \ {s} :
                            (Registered(t, conn[s].StreamKey)
                                 /\ Len(send[t]) < QueueCap)
                                => /\ Len(send'[t]) > Len(send[t])
                                   /\ send'[t][Len(send[t]) + 1].Type = "user_left"]_vars
    /\ \A s \in Sessions : (pc[s] = "c_remove") ~> (wpc[s] = "done")

----------------------------------------------------------------------------
\* Session s completes the fan-out of its typing frame.
TypingStep(s) == pc[s] = "t_bcast" /\ pc'[s] = "idle" /\ ~crashed'

\* The typing frame for the identity session s joined with.
Typing(s) ==
    [Type |-> "typing",
     Data |-> [userId |-> conn[s].UserID, username |-> conn[s].Username],
     Error |-> ""]

----------------------------------------------------------------------------
\* The frames that report an error or a denial.
IsErrorFrame(f) == f.Type \in {"error", "rate_limit"}

\* readPump of s turns the frame it has read down: the handler's only act is
\* to send an error or denial frame to the session itself.
TurnDownStep(s) ==
    /\ pc[s] = "idle"
    /\ pc'[s] = "send"
    /\ IsErrorFrame(loc'[s].frame)

\* The handler of s puts its error or denial frame on the session's queue.
ErrorSendStep(s) ==
    /\ pc[s] = "send"
    /\ pc'[s] # "send"
    /\ IsErrorFrame(loc[s].frame)

\* The error text for the scripted frame ev read by a session with user-id u,
\* "" where it depends on more than that.
ExpectedError(ev, u) ==
    CASE ev.kind = "bad" /\ ev.arg = "notype" -> "Invalid message type"
      [] ev.kind = "bad" /\ ev.arg = "unknown" -> "Unknown message type"
      [] ev.kind = "bad" /\ ev.arg = "joinmissing" -> "Missing userId or username"
      [] ev.kind = "message" /\ u = "" -> "Not joined to chat"
      [] OTHER -> ""

\* C20: a frame that is turned down (unknown or missing type, a message
\* before join, a join without userId or username, a limiter denial) puts one
\* frame on the sender's queue and nothing on any other; no error or
\* rate_limit frame ever gets onto the queue of a session other than the one
\* whose handler sends it; rooms, rosters and the registry stay as they are.
C20_ErrorsLocalized ==
    [][\A s \in Sessions :
          /\ TurnDownStep(s) =>
                 /\ loc'[s].next = "idle"
                 /\ UNCHANGED <<send, heap, rooms, roomLog, connections>>
                 /\ script[s] # <<>> =>
                        LET e == ExpectedError(Head(script[s]), conn[s].UserID)
                        IN  e # "" => loc'[s].frame =
                                [Type |-> "error", Data |-> <<>>, Error |-> e]
          /\ ErrorSendStep(s) =>
                 /\ send' = [send EXCEPT ![s] = Append(@, loc[s].frame)]
                 /\ UNCHANGED <<heap, rooms, roomLog, connections>>
          /\ \A i \in (Len(send[s]) + 1)..Len(send'[s]) :
                 IsErrorFrame(send'[s][i]) =>
                     /\ pc[s] = "send"
                     /\ send'[s][i] = loc[s].frame
          /\ (script[s] # <<>> /\ script'[s] # script[s]
                  /\ ExpectedError(Head(script[s]), conn[s].UserID) # "")
                 => TurnDownStep(s)]_vars

\* A session has sent a frame without a type and a message before its join:
\* it holds the two error frames, and the session registered for the stream
\* holds none.
C20_Witness ==
    \E s, t \in DOMAIN send :
        /\ s # t
        /\ conn[s].UserID = ""
        /\ Len(send[s]) = 2
        /\ send[s][1].Error = "Invalid message type"
        /\ send[s][2].Error = "Not joined to chat"
        /\ Registered(t, conn[s].StreamKey)
        /\ \A i \in DOMAIN send[t] : ~IsErrorFrame(send[t][i])

----------------------------------------------------------------------------
\* The sum of BytesUsed over the rooms of the directory.
BytesInUse ==
    SumRooms(rooms, [i \in DOMAIN heap |-> heap[i].BytesUsed], DOMAIN rooms)

\* Every message buffered in a room of the directory is at most
\* EmergencyRetention old.
OnlyRecentMessages ==
    \A k \in DOMAIN rooms :
        LET all == GetAll(heap[rooms[k]].Messages)
        IN  \A i \in DOMAIN all : now - all[i].Timestamp <= EmergencyRetention

\* C15: a monitor tick that finds the usage above 90% of the maximum runs the
\* emergency eviction to completion: the monitor, once it has called
\* performEmergencyCleanup, returns from it; and when it returns, every room
\* buffer holds only messages of the last 10 minutes and the bytes in use
\* are not more than before.
C15_EmergencyEviction ==
    /\ (tpc["mon"] = "lock") ~> (tpc["mon"] = "idle")
    /\ [][(tpc["mon"] = "lock" /\ tpc'["mon"] = "idle")
              => /\ OnlyRecentMessages'
                 /\ BytesInUse' <= BytesInUse]_vars

----------------------------------------------------------------------------
\* C16: no task asks for the directory's write lock while it holds the read
\* lock; no task waits for the directory lock for ever; and a call of
\* AddUser, AddMessage or RemoveUser, whenever it is made (after a critical
\* monitor tick too), returns.
C16_DeadlockFreedom ==
    /\ [](\A t \in Tasks : ~(t \in mux.readers /\ t \in mux.waiting))
    /\ \A t \in Tasks :
           (tpc[t] \in {"lock", "rlock"}) ~> (tpc[t] \notin {"lock", "rlock"})
    /\ \A c \in Callers : (tpc[c] # "idle") ~> (tpc[c] = "idle")

----------------------------------------------------------------------------
\* The room under stream key k is empty and its last activity is older than
\* the inactive-stream timeout.
Reapable(k) ==
    /\ UserCount(heap[rooms[k]]) = 0
    /\ now - heap[rooms[k]].LastActivity > InactiveStreamTimeout

\* C17: at the end of every cleanup pass the directory holds no room whose
\* roster is empty and whose last activity is older than the inactive-stream
\* timeout; so a room its last user has left is gone from the directory at
\* the end of the first pass that runs after the timeout has elapsed.
C17_ReapSafety ==
    [][(tpc["cln"] = "pass" /\ tpc'["cln"] = "idle")
           => \A k \in DOMAIN rooms' : ~Reapable(k)']_vars

----------------------------------------------------------------------------
\* C18: the totals GetStats returns, users and buffered messages, are the
\* totals of the directory as they were at one single moment between the
\* request and its return.
C18_StatsConsistency ==
    [][(tpc["st"] = "stats" /\ tpc'["st"] = "idle")
           => <<statsOut'.total_users, statsOut'.total_messages>>
                  \in statsSeen]_vars

----------------------------------------------------------------------------
\* A read of the buffer has just returned or panicked.
BufReadStep == cbRead' # cbRead /\ cbRead'.op # "RemoveOlderThan"

\* C30: tail(n) / getMessages(n) on a buffer of size s returns the min(n, s)
\* most recent messages, oldest first; for n >= s that is the snapshot; for
\* n <= 0 the result is empty.
C30_TailOfBuffer ==
    [][BufReadStep =>
          /\ ~cbRead'.panicked
          /\ cbRead'.out =
                IF cbRead'.n <= 0 THEN <<>>
                ELSE LastOf(GetAll(cb), Min(cbRead'.n, Size(cb)))]_vars

----------------------------------------------------------------------------
\* No tier before the escalation matches: no running timeout, a length of
\* at most 500, fewer than 5, 10 and 20 messages in 10, 30 and 60 s, the
\* size limits of large and medium messages kept, fewer than three similar
\* texts among the last five, and not a large text after 2000 characters in
\* five minutes.
NoEarlierTier(pre, H, text, t) ==
    LET len == TLen(text)
    IN  /\ ~(t < pre.TimeoutUntil)
        /\ len <= 500
        /\ InLast(H, 10, t) < 5
        /\ InLast(H, 30, t) < 10
        /\ InLast(H, 60, t) < 20
        /\ ~(len > 300 /\ InLast(H, 10, t) >= 1)
        /\ ~(len > 100 /\ InLast(H, 10, t) >= 3)
        /\ SimilarAmongLast5(H, text) < 3
        /\ ~(len >= 400 /\ CharsInLast(H, 300, t) > 2000)

\* The timeout of the escalation for a violation count of at least 3.
EscalationTimeout(v) == IF v >= 5 THEN 1800 ELSE IF v >= 4 THEN 600 ELSE 300

\* The three parallel histories of a record.
HistoryOf(r) == <<r.Messages, r.MessageContents, r.CharCountHistory>>

\* C24: Escalation.  When no earlier tier matches and the violation count is
\* at least 3, the message is denied with REPEAT_OFFENDER and timeout-until
\* becomes now + 5 min (10 min from 4 violations, 30 min from 5); the
\* violation count stays and the message is not recorded.
C24_Escalation ==
    [][RLCheckStep =>
          LET u == rlLast'.user
              pre == PreRecord(u)
              H == cleanup(pre, now)
              post == userRecords'[u]
          IN  (NoEarlierTier(pre, H, rlLast'.text, now) /\ pre.Violations >= 3)
                  => /\ ~rlLast'.allowed
                     /\ rlLast'.err.Code = "REPEAT_OFFENDER"
                     /\ post.TimeoutUntil
                            = now + EscalationTimeout(pre.Violations)
                     /\ post.Violations = pre.Violations
                     /\ HistoryOf(post) = HistoryOf(H)]_vars

\* The escalation has just denied a message of a user with five violations
\* for 30 minutes.
C24_Witness ==
    /\ rlLast.n > 0
    /\ rlLast.err.Code = "REPEAT_OFFENDER"
    /\ rlLast.at = now
    /\ rlLast.user \in DOMAIN userRecords
    /\ userRecords[rlLast.user].Violations >= 5
    /\ userRecords[rlLast.user].TimeoutUntil = now + 1800

----------------------------------------------------------------------------
\* The history post is the history pre without some of its oldest entries,
\* all of them at least five minutes old at time t, followed by extra.
KeptAfterLazyDrop(pre, post, t, extra) ==
    \E k \in 0..Len(pre.Messages) :
        /\ \A i \in 1..k : pre.Messages[i] <= t - 300
        /\ post.Messages
               = SubSeq(pre.Messages, k + 1, Len(pre.Messages)) \o extra[1]
        /\ post.MessageContents
               = SubSeq(pre.MessageContents, k + 1, Len(pre.MessageContents))
                     \o extra[2]
        /\ post.CharCountHistory
               = SubSeq(pre.CharCountHistory, k + 1, Len(pre.CharCountHistory))
                     \o extra[3]

\* The denials that set no timeout and count no violation: T0, T1, T3-long
\* and T3-med.
PlainDenials ==
    {"TIMEOUT", "MESSAGE_TOO_LONG", "RATE_LIMIT_LONG_MESSAGE",
     "RATE_LIMIT_MEDIUM_MESSAGE"}

\* C25: Only Allow records.  A check appends (now, text, len) to the user's
\* history exactly when its outcome is Allow; a denial leaves the entries of
\* the history as they were, apart from the lazy drop of entries five
\* minutes old, and a denial by T0, T1, T3-long or T3-med leaves
\* timeout-until and the violation count as they were too.
C25_OnlyAllowRecords ==
    [][RLCheckStep =>
          LET u == rlLast'.user
              text == rlLast'.text
              pre == PreRecord(u)
              post == userRecords'[u]
          IN  /\ rlLast'.allowed
                  => KeptAfterLazyDrop(pre, post, now,
                                       <<<<now>>, <<text>>, <<TLen(text)>>>>)
              /\ ~rlLast'.allowed
                  => KeptAfterLazyDrop(pre, post, now, <<<<>>, <<>>, <<>>>>)
              /\ rlLast'.err.Code \in PlainDenials
                  => /\ post.TimeoutUntil = pre.TimeoutUntil
                     /\ post.Violations = pre.Violations]_vars

\* A medium message was just denied for its size, after three messages in
\* the last ten seconds: nothing was recorded for it.
C25_Witness ==
    /\ rlLast.n > 0
    /\ rlLast.at = now
    /\ rlLast.err.Code = "RATE_LIMIT_MEDIUM_MESSAGE"
    /\ rlLast.user \in DOMAIN userRecords
    /\ Len(userRecords[rlLast.user].Messages) >= 3
    /\ \A i \in 1..Len(userRecords[rlLast.user].MessageContents) :
           userRecords[rlLast.user].MessageContents[i] # rlLast.text

----------------------------------------------------------------------------
\* The reaper's pass has just run.
RLReapStep == UNCHANGED <<now, rlGhost>> /\ userRecords' # userRecords

\* The user's last recorded message is older than 30 minutes.
Expired(u) ==
    /\ Len(userRecords[u].Messages) > 0
    /\ now - userRecords[u].Messages[Len(userRecords[u].Messages)] > 1800

\* The user's last recorded message, or else the first attempt (no record
\* is older than the limiter, which started at time 0), is less than 30
\* minutes old.
Fresh(u) ==
    IF Len(userRecords[u].Messages) > 0
    THEN now - userRecords[u].Messages[Len(userRecords[u].Messages)] < 1800
    ELSE now < 1800

\* C26: Reaper lifetime rule.  A reaper pass removes the record of a user
\* whose last recorded message is older than 30 minutes, and the record of a
\* user whose first message attempt or last recorded message is less than 30
\* minutes old survives the pass with its timeout-until and violation count.
C26_ReaperLifetime ==
    [][RLReapStep =>
          \A u \in DOMAIN userRecords :
              /\ Expired(u) => u \notin DOMAIN userRecords'
              /\ Fresh(u) =>
                    /\ u \in DOMAIN userRecords'
                    /\ userRecords'[u].TimeoutUntil
                           = userRecords[u].TimeoutUntil
                    /\ userRecords'[u].Violations
                           = userRecords[u].Violations]_vars

----------------------------------------------------------------------------
\* The estimate of a message's size: the lengths of its strings and 100.
Estimate(msg) ==
    UUIDLen + StrLen(msg.StreamKey) + StrLen(msg.UserID)
        + StrLen(msg.Username) + TLen(msg.Message) + 100

\* C27: Byte accounting on wrap.  Room.addMessage on a room whose buffer is
\* full overwrites the oldest message, and the room's bytes-used grows by
\* the estimate of the new message less the average message size (500) for
\* the message evicted.
C27_ByteAccountingOnWrap ==
    [][\A s \in Sessions :
          (MsgAddStep(s)
              /\ Size(heap[loc[s].room].Messages)
                     = heap[loc[s].room].Messages.maxSize)
          => LET old == heap[loc[s].room]
                 new == heap'[loc[s].room]
                 msg == GetAll(new.Messages)[BufCap]
             IN  /\ GetAll(new.Messages)
                        = Tail(GetAll(old.Messages)) \o <<msg>>
                 /\ new.BytesUsed
                        = old.BytesUsed + Estimate(msg) - 500]_vars

----------------------------------------------------------------------------
\* The cleanup pass has just dealt with one room.
ClnRoomStep ==
    /\ tpc["cln"] = "pass"
    /\ tpc'["cln"] = "pass"
    /\ tloc'["cln"].todo # tloc["cln"].todo

\* C28: bytes-used is never negative.  Each room's bytes-used is at least 0
\* in every state, and evictOld takes (number of evicted messages) x
\* (average message size, 500) off it, or sets it to 0 where the difference
\* would be negative.
C28_BytesUsedNotNegative ==
    [][/\ \A i \in DOMAIN heap' : heap'[i].BytesUsed >= 0
       /\ ClnRoomStep =>
             \A i \in DOMAIN heap :
                 LET evicted == Size(heap[i].Messages) - Size(heap'[i].Messages)
                 IN  heap'[i].BytesUsed
                         = Max(0, heap[i].BytesUsed - evicted * 500)]_vars

\* The cleanup pass has evicted every message of a room whose bytes-used
\* was less than the average sizes taken off: it now is 0.
C28_Witness ==
    /\ tpc["cln"] = "pass"
    /\ \E k \in DOMAIN rooms :
           /\ k \notin tloc["cln"].todo
           /\ Len(LogOf(rooms[k])) > 0
           /\ Size(heap[rooms[k]].Messages) = 0
           /\ heap[rooms[k]].BytesUsed = 0

----------------------------------------------------------------------------
\* C29: Last-activity refresh.  Every append and every roster change of a
\* room, by addUser and by removeUser, sets the room's last-activity to the
\* current time, and last-activity never decreases.
C29_LastActivityRefresh ==
    [][\A i \in DOMAIN heap :
          /\ heap'[i].LastActivity >= heap[i].LastActivity
          /\ (LogOf(i)' # LogOf(i) \/ heap'[i].Users # heap[i].Users)
                 => heap'[i].LastActivity = now]_vars

----------------------------------------------------------------------------
\* The cleanup pass has just ended.
ClnDoneStep == tpc["cln"] = "pass" /\ tpc'["cln"] = "idle"

\* C23: Room lifetime.  A room leaves the directory only at the end of a
\* cleanup pass, and only if at that moment its roster is empty and its
\* last-activity is older than the inactive-stream-timeout; a room with a
\* member is never removed.
C23_RoomLifetime ==
    [][\A k \in DOMAIN rooms :
          k \notin DOMAIN rooms'
              => /\ ClnDoneStep
                 /\ UserCount(heap[rooms[k]]) = 0
                 /\ now - heap[rooms[k]].LastActivity
                        > InactiveStreamTimeout]_vars

----------------------------------------------------------------------------
\* Session s has just run a fan-out: of a message, of its join, of its
\* leave or of a typing notice.
FanOutStep(s) ==
    /\ pc[s] \in {"m_bcast", "j_bcast", "c_bcast", "t_bcast"}
    /\ pc'[s] # pc[s]

\* Session t is a recipient of the fan-out session s is about to run: it is
\* registered for the stream and, for a typing notice, not of the sender's
\* user.
Recipient(s, t) ==
    /\ Registered(t, conn[s].StreamKey)
    /\ pc[s] = "t_bcast" => conn[t].UserID # conn[s].UserID

\* C21: Best-effort fan-out.  A broadcast runs to its end whatever the state
\* of its recipients; a recipient whose queue is full does not get the
\* frame and keeps its queue, every other recipient gets the frame, the same
\* one for all, no other queue changes, and no queue ever holds more frames
\* than its capacity.
C21_BestEffortFanOut ==
    [][/\ \A t \in Sessions : Len(send'[t]) <= QueueCap
       /\ \A s \in Sessions :
             FanOutStep(s) =>
                 /\ ~crashed'
                 /\ \A t \in Sessions :
                        IF Recipient(s, t) /\ Len(send[t]) < QueueCap
                        THEN /\ Len(send'[t]) > Len(send[t])
                             /\ SubSeq(send'[t], 1, Len(send[t])) = send[t]
                        ELSE send'[t] = send[t]
                 /\ \A t, r \in Sessions :
                        (Len(send'[t]) > Len(send[t])
                             /\ Len(send'[r]) > Len(send[r]))
                        => send'[t][Len(send'[t])] = send'[r][Len(send'[r])]]_vars

----------------------------------------------------------------------------
\* Both workers have returned.
WorkersExited == tpc["cln"] = "exited" /\ tpc["mon"] = "exited"

\* C22: Stop.  After Manager.Stop both the cleanup worker and the monitor
\* worker eventually exit, and a call of addMessage, addUser or removeUser
\* or a read that is under way then still comes to its end.
C22_Stop ==
    /\ stopped ~> WorkersExited
    /\ \A t \in Callers \cup {"st"} : (stopped /\ tpc[t] # "idle") ~> tpc[t] = "idle"

----------------------------------------------------------------------------
\* A call of RemoveOlderThan has just returned; cbRead' holds its cutoff and
\* the count it returned.
BufEvictStep == cbRead' # cbRead /\ cbRead'.op = "RemoveOlderThan"

\* The call before this one was a RemoveOlderThan with the same cutoff, and
\* nothing was appended since.
SameCutoffAgain ==
    /\ cbRead.op = "RemoveOlderThan"
    /\ cbRead.cutoff = cbRead'.cutoff
    /\ cbRead.appended = cbRead'.appended

\* C31: Time eviction.  RemoveOlderThan removes exactly the longest prefix,
\* from the head, of the messages stamped at or before the cutoff, keeps the
\* rest in order and returns the number removed; a second call with the same
\* cutoff and no append in between removes nothing.
C31_TimeEviction ==
    [][BufEvictStep =>
          LET before == GetAll(cb)
              after == GetAll(cb')
              k == cbRead'.removed
          IN  /\ k \in 0..Len(before)
              /\ \A i \in 1..k : before[i].Timestamp <= cbRead'.cutoff
              /\ k < Len(before) => before[k + 1].Timestamp > cbRead'.cutoff
              /\ after = SubSeq(before, k + 1, Len(before))
              /\ SameCutoffAgain => (k = 0 /\ cb' = cb)]_vars

\* The last call on a wrapped buffer was a RemoveOlderThan that removed
\* nothing, with no append since; part of the buffer is already removed, and
\* the last message removed is stamped exactly at the cutoff of that call.
C31_Witness ==
    /\ cbRead.op = "RemoveOlderThan"
    /\ cbRead.removed = 0
    /\ cbRead.appended = cbNextID - 1
    /\ cbRead.appended > BufCap
    /\ cb.size \in 1..(BufCap - 1)
    /\ cbLog[Len(cbLog) - cb.size].Timestamp = cbRead.cutoff

----------------------------------------------------------------------------
\* Session s takes a step of a cleanup that follows a finished one: its
\* queue is closed already.
SecondCleanupStep(s) ==
    /\ sendClosed[s]
    /\ pc[s] \in {"c_remove", "c_unreg", "c_bcast", "c_close"}
    /\ pc'[s] # pc[s]

----------------------------------------------------------------------------
\* C33: No enqueue on a closed queue.  Every session the connection registry
\* refers to has an open outbound queue, and no fan-out has sent on a closed
\* queue, also when a session joined more than once with different user-ids
\* before it closed.
C33_NoEnqueueOnClosed ==
    /\ \A u \in DOMAIN connections : ~sendClosed[connections[u]]
    /\ ~crashed

----------------------------------------------------------------------------
\* readPump of session t is in its loop: the session is live.
Live(t) == pc[t] \notin {"c_remove", "c_unreg", "c_bcast", "c_close", "c_sock", "closed"}

\* The registry entry of user-id u refers to session t.
HoldsEntry(t, u) == u \in DOMAIN connections /\ connections[u] = t

\* The room of the stream of session t has user-id u on its roster.
OnRoster(t, u) ==
    /\ conn[t].StreamKey \in DOMAIN rooms
    /\ u \in DOMAIN heap[rooms[conn[t].StreamKey]].Users

\* C34: Cleanup removes only its own entries.  When a session closes after
\* another live session has joined with the same user-id, its cleanup leaves
\* the other session's registry entry and roster record in place.
C34_CleanupOwnEntries ==
    [][\A s \in Sessions : \A t \in Sessions \ {s} :
          ((RemoveStep(s) \/ UnregisterStep(s))
               /\ Live(t)
               /\ HoldsEntry(t, conn[s].UserID))
              => /\ HoldsEntry(t, conn[s].UserID)'
                 /\ OnRoster(t, conn[s].UserID) => OnRoster(t, conn[s].UserID)']_vars

----------------------------------------------------------------------------
\* Caller c returns from Manager.AddUser with success, from Manager.AddMessage.
AddUserReturns(c) == tpc[c] = "add_user" /\ tpc'[c] = "idle"
AddMessageReturns(c) == tpc[c] = "add_msg" /\ tpc'[c] = "idle"

\* The IDs of the messages in the buffer of room.
BufferIDs(room) ==
    {GetAll(room.Messages)[i].ID : i \in 1..Size(room.Messages)}

\* C35: Join and append are not lost to a concurrent reap.  When
\* Manager.AddUser returns success the user is on the roster of the room the
\* directory maps to the stream-id, and when Manager.AddMessage returns the
\* message is in the buffer of that room, under every interleaving with a
\* cleanup pass.
C35_NotLostToReap ==
    [][\A c \in Callers :
          /\ AddUserReturns(c) =>
                 /\ tloc[c].key \in DOMAIN rooms'
                 /\ MgrUser \in DOMAIN heap'[rooms'[tloc[c].key]].Users
          /\ AddMessageReturns(c) =>
                 /\ tloc[c].key \in DOMAIN rooms'
                 /\ nextID \in BufferIDs(heap'[rooms'[tloc[c].key]])]_vars

----------------------------------------------------------------------------
\* The user of session s is off the roster of its stream and no registry
\* entry refers to the session.
CleanedUp(s) == OffRoster(s) /\ Entries(s) = 0

\* C36: Every broken session is eventually cleaned up.  The reader never
\* blocks for ever while it enqueues a reply on its own queue, and once the
\* socket of a session has failed its user is eventually off the roster and
\* out of the registry, also when the queue was full and the writer had
\* exited.  (A process that has panicked is left aside.)
C36_BrokenSessionCleanedUp ==
    \A s \in Sessions :
        /\ (pc[s] = "send") ~> (pc[s] # "send" \/ crashed)
        /\ (wpc[s] = "failed") ~> (CleanedUp(s) \/ crashed)

----------------------------------------------------------------------------
\* Session s has run the fan-out of its `message` frame, to its end or up to
\* the send that panicked.
MsgFanOutStep(s) == pc[s] = "m_bcast" /\ pc'[s] # "m_bcast"

\* The frames the step has put on the queue of session t.
Enqueued(t) == {send'[t][i] : i \in (Len(send[t]) + 1)..Len(send'[t])}

\* C37: No gap at join.  For a session that joined and stays registered,
\* every message appended to its room after the session was put in the
\* registry is in its history frame or is enqueued on its queue as a
\* `message` frame when the sender fans it out, unless the queue is full at
\* that moment.
C37_NoGapAtJoin ==
    [][\A s \in Sessions :
          MsgFanOutStep(s) =>
              \A t \in Sessions :
                  (Registered(t, conn[s].StreamKey)
                       /\ loc[s].frame.Data.ID \notin seen[t]
                       /\ Len(send[t]) < QueueCap)
                      => loc[s].frame \in Enqueued(t)]_vars

----------------------------------------------------------------------------
\* C38: Violations are permanent for the life of the record.  The violation
\* count of a user never decreases while the record exists, and once it has
\* reached 3 no check for that user-id returns Allow until the record is
\* removed.
C38_ViolationsPermanent ==
    [][/\ \A u \in DOMAIN userRecords \cap DOMAIN userRecords' :
              userRecords'[u].Violations >= userRecords[u].Violations
       /\ (RLCheckStep
               /\ rlLast'.user \in DOMAIN userRecords
               /\ userRecords[rlLast'.user].Violations >= 3)
              => ~rlLast'.allowed]_vars

\* A user with three violations was turned down as a repeat offender after
\* the whole history of the record had aged out.
C38_Witness ==
    /\ rlLast.user \in DOMAIN userRecords
    /\ userRecords[rlLast.user].Violations >= 3
    /\ userRecords[rlLast.user].Messages = <<>>
    /\ ~rlLast.allowed
    /\ rlLast.err.Code = "REPEAT_OFFENDER"

----------------------------------------------------------------------------
\* The recorded messages of history H in the 30 s that end with its i-th
\* message, counted as countMessagesInWindow counts a window: stamped after
\* the window's start, up to its end.
InWindowEndingAt(H, i) ==
    Cardinality({j \in 1..Len(H.Messages) :
                    /\ H.Messages[j] > H.Messages[i] - 30
                    /\ H.Messages[j] <= H.Messages[i]})

FrequencyTierCodes == {"TIMEOUT", "MESSAGE_TOO_LONG", "RATE_LIMIT", "SPAM_DETECTED"}

\* C39: HEAVY_SPAM is unreachable.  No check returns HEAVY_SPAM: a check
\* that finds 20 or more recorded messages of the user in the last 60 s is
\* decided by an earlier tier (timeout, length, burst or spam); and no
\* history holds more than 10 recorded messages in a 30 s window.
C39_HeavySpamUnreachable ==
    [][/\ RLCheckStep =>
              /\ rlLast'.err.Code # "HEAVY_SPAM"
              /\ InLast(PreRecord(rlLast'.user), 60, now) >= 20
                     => /\ ~rlLast'.allowed
                        /\ rlLast'.err.Code \in FrequencyTierCodes
       /\ \A u \in DOMAIN userRecords' :
              \A i \in 1..Len(userRecords'[u].Messages) :
                  InWindowEndingAt(userRecords'[u], i) <= 10]_vars

\* A check found twenty recorded messages of the last 60 s, ten of them in
\* the last 30 s, and was turned down by the burst tier.
C39_Witness ==
    /\ rlLast.user \in DOMAIN userRecords
    /\ rlLast.at = now
    /\ InLast(userRecords[rlLast.user], 60, now) >= 20
    /\ InLast(userRecords[rlLast.user], 30, now) = 10
    /\ ~rlLast.allowed
    /\ rlLast.err.Code = "RATE_LIMIT"

----------------------------------------------------------------------------
\* C40: bytes-used is bounded.  The bytes-used of a room never exceeds the
\* capacity of its buffer times the largest estimate of a message appended
\* to it, also when appends keep wrapping the full buffer.
C40_BytesUsedBounded ==
    \A i \in DOMAIN heap :
        IF LogOf(i) = <<>> THEN heap[i].BytesUsed = 0
        ELSE \E k \in 1..Len(LogOf(i)) :
                 heap[i].BytesUsed
                     <= heap[i].Messages.maxSize * Estimate(LogOf(i)[k])

====
